---- MODULE Spec2Model ----
(***************************************************************************)
(* Model of the multi-agent tool-calling core of the Outlook calendar      *)
(* report add-in.                                                          *)
(*                                                                         *)
(*   Spec      one BaseAgent (src/src/agents/BaseAgent.ts): its            *)
(*             conversation log, its context and the agentic loop of       *)
(*             run(), one step per suspension point (model query, tool     *)
(*             handler).                                                   *)
(*   SpecOrch  the AgentOrchestrator (src/src/agents/index.ts) with its    *)
(*             calendar, analysis and report agents: generateReport,       *)
(*             runCommand and reset, one step per suspension point of the  *)
(*             agent run that the orchestrator awaits.                     *)
(*   SpecAnalyze  the loop of the analyze_all_meetings handler             *)
(*             (src/unnamed/part_003) over the records of the context,     *)
(*             with analyzeMeeting (src/src/services/llmService.ts)        *)
(*             computed from the record and the reply of the model.        *)
(*   SpecContext  the context of one agent as an object with an identity:  *)
(*             the writes of the handlers, setContext, reset, and the data *)
(*             of a success result.                                        *)
(*   SpecReport  the rows the generate_excel_report handler builds from    *)
(*             the meetings and the analysis results of its context        *)
(*             (src/src/services/excelService.ts).                         *)
(*   SpecEvents  the subscribers, emit, the tool registry and reset() of   *)
(*             one agent.                                                  *)
(***************************************************************************)
EXTENDS Integers, Sequences, FiniteSets, TLC

(***************************************************************************)
(* Bounds of the model.                                                    *)
(***************************************************************************)
\* largest config.maxIterations an agent is constructed with
MaxIterations == 2
\* largest number of tool calls the model returns in one response
MaxBatch == 2
\* run() is explored only from logs of at most this many messages
MaxPriorHistory == 4
\* largest number of records the calendar fetch returns
MaxMeetings == 1
\* generateReport and runCommand calls explored on one orchestrator
MaxCalls == 2
\* largest number of records analyze_all_meetings finds in the context
MaxBatchRecords == 2
\* AgentContext objects one agent allocates (constructor, setContext, reset)
MaxObjects == 3
\* largest number of meetings generate_excel_report finds in the context
MaxReportMeetings == 2

(***************************************************************************)
(* Inputs.                                                                 *)
(***************************************************************************)
\* the userMessage arguments of run()
Instructions == {"instruction_a", "instruction_b"}

\* names under which the agent registered a handler (toolHandlers keys)
RegisteredTools == {"registered_tool"}

\* tool names the model may put in a tool call
ToolNames == RegisteredTools \cup {"unregistered_tool"}

\* arguments strings of a tool call: valid JSON the handler accepts, valid
\* JSON on which the handler throws (as analyze_single_meeting does on an
\* unknown meeting_id), and a string JSON.parse rejects
AcceptedJson == "{}"
RejectedJson == "{\"meeting_id\":\"missing\"}"
MalformedJson == "{oops"

\* what JSON.parse(argsJson) does at BaseAgent.ts:174
JSONParseThrows(argsJson) == argsJson = MalformedJson

\* whether the registered handler throws on the parsed arguments
HandlerThrows(argsJson) == argsJson = RejectedJson

\* the function part of the tool calls the model may return; the name of a
\* call is looked up only when its arguments parse, and the arguments reach
\* a handler only when the name is registered
ToolCallShapes ==
    { [name |-> n, arguments |-> a] :
        <<n, a>> \in (RegisteredTools \X {AcceptedJson, RejectedJson, MalformedJson})
                       \cup ((ToolNames \ RegisteredTools) \X {AcceptedJson}) }

\* content of a tool-free assistant message: text, or null
AssistantContents == {"answer", "null"}

\* messages of the errors callLLM throws: non-2xx response, network failure
TransportErrors == {"LLM API error", "Failed to fetch"}

NoId == 0

VARIABLES
    maxIterations,        \* config.maxIterations of the agent
    conversationHistory,  \* BaseAgent.conversationHistory
    context,              \* BaseAgent.context: the set of keys written
    pc,                   \* where run() is: Idle, AwaitingModel, DispatchingTools, Done, Failed
    iterations,           \* the local counter of run()
    pending,              \* tool calls of the current batch not yet handled
    result,               \* the AgentResponse run() returned last, NoResult while it runs
    queries,              \* fetch() calls made by callLLM in the current run()
    dispatched,           \* handlers invoked by executeTool in the current run()
    runCount,             \* run() calls since construction or the last reset()
    lastReset,            \* "none", or what the last reset() found: "fresh" or "used" log
    emitted,              \* the events of the latest run(), <<>> after construction or reset()
    stage,                \* which await of generateReport or runCommand is pending, or idle
    options,              \* the options of generateReport, the branch runCommand took
    agent,                \* the agent whose run() the orchestrator awaits, "none" when idle
    agentPc,              \* where that run() is
    agentIterations,      \* the local counter of that run()
    agentResult,          \* the AgentResponse of that run(), NoResult while it runs
    agentContext,         \* BaseAgent.context of each agent
    historyFresh,         \* per agent: conversationHistory holds the system message only
    meetings,             \* CalendarAgent.meetings
    analysisResults,      \* the Map AnalysisAgent.analysisResults
    executiveSummary,     \* AnalysisAgent.executiveSummary
    sharedContext,        \* AgentOrchestrator.sharedContext
    stageMeetings,        \* the local meetings of generateReport
    lastDownload,         \* the filename of the workbook written last, <<>> if none
    returned,             \* what generateReport or runCommand returned last
    recordsFetched,       \* a fetch returned records since construction or the last reset()
    callCount,            \* generateReport and runCommand calls made so far
    callLog,              \* what the call in progress has done so far, until its caller resumes
    loopMeetings,         \* analyze_all_meetings: the records of the context
    loopIndex,            \* the record its for loop is at
    loopResults,          \* the Map analysisResults, by record id
    loopReplies,          \* what chatCompletion did for each record passed
    loopReturned,         \* "running", or how the handler returned
    objects,              \* the AgentContext objects allocated so far, by identity
    thisContext,          \* the object BaseAgent.context refers to
    heldResult,           \* the data of the success result its caller holds, <<>> if none
    reportMeetings,       \* generate_excel_report: the meetings of the context
    reportAnalysisResults, \* the Map analysisResults of the context, by meeting id
    argIncludeAnalysis,   \* args.include_analysis !== 'false'
    reportData,           \* ReportAgent.reportData
    reportReturned,       \* "running", or how the handler returned
    eventHandlers,        \* BaseAgent.eventHandlers, in subscription order
    toolRegistry,         \* BaseAgent.toolHandlers: tool name -> handler
    configTools,          \* config.tools: the names of the declared tool specs
    forEachIndex,         \* emit: the index forEach is at, 0 when no emit is running
    forEachLength,        \* emit: the length forEach read when it started
    subscribedAtStart,    \* eventHandlers when the emission started
    delivered,            \* the handlers the emission has called, in order
    lastDispatch          \* what executeTool did last, <<>> before the first call

agentVars == <<maxIterations, conversationHistory, context, pc, iterations,
               pending, result, queries, dispatched, runCount, lastReset, emitted>>

orchVars == <<stage, options, agent, agentPc, agentIterations, agentResult, agentContext,
              historyFresh, meetings, analysisResults, executiveSummary, sharedContext,
              stageMeetings, lastDownload, returned, recordsFetched, callCount,
              callLog>>

analyzeVars == <<loopMeetings, loopIndex, loopResults, loopReplies, loopReturned>>

contextVars == <<objects, thisContext, heldResult>>

reportVars == <<reportMeetings, reportAnalysisResults, argIncludeAnalysis, reportData,
                reportReturned>>

eventVars == <<eventHandlers, toolRegistry, configTools, forEachIndex, forEachLength,
               subscribedAtStart, delivered, lastDispatch>>

vars == <<agentVars, orchVars, analyzeVars, contextVars, reportVars, eventVars>>

(***************************************************************************)
(* Messages (AgentMessage).                                                *)
(***************************************************************************)
SystemMessage ==
    [role |-> "system", content |-> <<"systemPrompt">>, tool_calls |-> <<>>, tool_call_id |-> NoId]

UserMessage(userMessage) ==
    [role |-> "user", content |-> <<userMessage>>, tool_calls |-> <<>>, tool_call_id |-> NoId]

AssistantMessage(content, toolCalls) ==
    [role |-> "assistant", content |-> <<content>>, tool_calls |-> toolCalls, tool_call_id |-> NoId]

\* the message pushed at BaseAgent.ts:180-184
ToolResultMessage(toolCall) ==
    [role |-> "tool", content |-> <<"result">>, tool_calls |-> <<>>,
     tool_call_id |-> toolCall.id]

\* mutant of ToolErrorMessage: the error message is pushed without the call's id
ToolErrorMessageWithoutId(toolCall, errorMessage) ==
    [role |-> "tool", content |-> <<"error", errorMessage>>, tool_calls |-> <<>>,
     tool_call_id |-> NoId]

\* the message pushed at BaseAgent.ts:189-193; content is {error: errorMessage}
ToolErrorMessage(toolCall, errorMessage) ==
    [role |-> "tool", content |-> <<"error", errorMessage>>, tool_calls |-> <<>>,
     tool_call_id |-> toolCall.id]

\* ids the model gives the tool calls of its response number it: unique in a run
ToolCallId(it, i) == (it - 1) * MaxBatch + i

\* the tool_calls arrays the model may return in response number it
ToolCallBatches(it) ==
    UNION { { [i \in 1..k |-> [id |-> ToolCallId(it, i),
                               name |-> shapes[i].name,
                               arguments |-> shapes[i].arguments]] :
                shapes \in [1..k -> ToolCallShapes] } : k \in 1..MaxBatch }

(***************************************************************************)
(* Results (AgentResponse).  data is <<>> when the field is absent.        *)
(***************************************************************************)
NoResult == [success |-> FALSE, message |-> "pending", error |-> "none", data |-> <<>>]

\* BaseAgent.ts:202-206
SuccessResult(content, ctx) ==
    [success |-> TRUE,
     message |-> IF content = "null" THEN "Task completed" ELSE content,
     error |-> "none",
     data |-> <<ctx>>]

\* BaseAgent.ts:210-214
FailedResult(errorMessage) ==
    [success |-> FALSE, message |-> "Agent failed", error |-> errorMessage, data |-> <<>>]

\* mutant of MaxIterationsResult: the cap is reported like a transport failure
MaxIterationsResultAsAgentFailed ==
    [success |-> FALSE, message |-> "Agent failed", error |-> "Max iterations exceeded",
     data |-> <<>>]

\* BaseAgent.ts:219-223
MaxIterationsResult ==
    [success |-> FALSE, message |-> "Agent reached maximum iterations",
     error |-> "Max iterations exceeded", data |-> <<>>]

Running == pc \in {"AwaitingModel", "DispatchingTools"}

(***************************************************************************)
(* Events (AgentEvent) and the events run() emits (BaseAgent.ts:62-71).    *)
(***************************************************************************)
Event(type, message) == [type |-> type, message |-> message]

\* BaseAgent.ts:156
ThinkingEvent == Event("thinking", <<"Processing request...">>)

\* BaseAgent.ts:171
ToolCallEvent(toolCall) == Event("tool_call", <<"Calling tool", toolCall.name>>)

\* BaseAgent.ts:177
ToolResultEvent(toolCall) == Event("tool_result", <<"Tool completed", toolCall.name>>)

\* BaseAgent.ts:187
ToolFailedEvent(toolCall, errorMessage) ==
    Event("error", <<"Tool failed", toolCall.name, errorMessage>>)

\* BaseAgent.ts:201
TaskCompletedEvent == Event("complete", <<"Task completed">>)

\* BaseAgent.ts:209
AgentErrorEvent(errorMessage) == Event("error", <<errorMessage>>)

\* BaseAgent.ts:218
MaxIterationsEvent == Event("error", <<"Max iterations reached">>)

\* what a handler that writes the context emits before it does its work
\* (part_003:166, part_005:126, index.ts:126)
HandlerProgress == <<Event("thinking", <<"handler progress">>)>>

Emit(events) == emitted' = emitted \o events

(***************************************************************************)
(* The agent after construction (BaseAgent.ts:24-36).                      *)
(***************************************************************************)
InitialHistory == <<SystemMessage>>

AgentInit ==
    /\ maxIterations \in 1..MaxIterations
    /\ conversationHistory = InitialHistory
    /\ context = {}
    /\ pc = "Idle"
    /\ iterations = 0
    /\ pending = <<>>
    /\ result = NoResult
    /\ queries = 0
    /\ dispatched = 0
    /\ runCount = 0
    /\ lastReset = "none"
    /\ emitted = <<>>

\* mutant of WhileCondition: the loop admits one iteration too many
WhileConditionOffByOne(it) == it <= maxIterations

(***************************************************************************)
(* The loop condition of run() (BaseAgent.ts:158-159, 218-223): either the *)
(* next model query is issued, or the run ends at the iteration cap.       *)
(***************************************************************************)
WhileCondition(it) == it < maxIterations

\* mutant of LoopHead: at the iteration cap the run is left as done
LoopHeadEndsDone(it, q) ==
    IF WhileCondition(it)
    THEN /\ iterations' = it + 1
         /\ queries' = q + 1
         /\ pc' = "AwaitingModel"
         /\ result' = NoResult
    ELSE /\ iterations' = it
         /\ queries' = q
         /\ pc' = "Done"
         /\ result' = MaxIterationsResult

\* the head of the while loop, entered with iterations = it after q queries
LoopHead(it, q) ==
    IF WhileCondition(it)
    THEN /\ iterations' = it + 1
         /\ queries' = q + 1
         /\ pc' = "AwaitingModel"
         /\ result' = NoResult
    ELSE /\ iterations' = it
         /\ queries' = q
         /\ pc' = "Failed"
         /\ result' = MaxIterationsResult

\* the event of line 218, emitted when the loop condition fails
CapEvents(it) == IF WhileCondition(it) THEN <<>> ELSE <<MaxIterationsEvent>>

\* mutant of Run: the new request replaces the earlier turns of the log
RunStartsOver(userMessage) ==
    /\ ~Running
    /\ Len(conversationHistory) <= MaxPriorHistory
    /\ conversationHistory' = <<SystemMessage, UserMessage(userMessage)>>
    /\ pending' = <<>>
    /\ dispatched' = 0
    /\ runCount' = runCount + 1
    /\ LoopHead(0, 0)
    /\ UNCHANGED <<maxIterations, context, lastReset>>
    /\ emitted' = <<ThinkingEvent>> \o CapEvents(0)

\* run(userMessage) up to its first await (BaseAgent.ts:146-163)
Run(userMessage) ==
    /\ ~Running
    /\ Len(conversationHistory) <= MaxPriorHistory
    /\ conversationHistory' = Append(conversationHistory, UserMessage(userMessage))
    /\ pending' = <<>>
    /\ dispatched' = 0
    /\ runCount' = runCount + 1
    /\ LoopHead(0, 0)
    /\ UNCHANGED <<maxIterations, context, lastReset>>
    /\ emitted' = <<ThinkingEvent>> \o CapEvents(0)

\* mutant of LLMFails: the failed model query is retried instead of reported
LLMFailsRetries(errorMessage) ==
    /\ pc = "AwaitingModel"
    /\ errorMessage \in TransportErrors
    /\ LoopHead(iterations, queries)
    /\ UNCHANGED <<maxIterations, conversationHistory, context, pending, dispatched,
                   runCount, lastReset>>
    /\ Emit(<<>>)

\* callLLM throws; the outer catch returns the failure (BaseAgent.ts:128-131, 207-215)
LLMFails(errorMessage) ==
    /\ pc = "AwaitingModel"
    /\ pc' = "Failed"
    /\ result' = FailedResult(errorMessage)
    /\ UNCHANGED <<maxIterations, conversationHistory, context, iterations, pending,
                   queries, dispatched, runCount, lastReset>>
    /\ Emit(<<AgentErrorEvent(errorMessage)>>)

\* mutant of LLMAnswers: an empty tool_calls array is taken for a batch, and the
\* loop queries the model again
LLMAnswersLoopsAgain(content) ==
    /\ pc = "AwaitingModel"
    /\ conversationHistory' = Append(conversationHistory, AssistantMessage(content, <<>>))
    /\ LoopHead(iterations, queries)
    /\ UNCHANGED <<maxIterations, context, pending, dispatched, runCount, lastReset>>
    /\ Emit(<<>>)

\* mutant of LLMAnswers: the run succeeds without its complete event
LLMAnswersWithoutEvent(content) ==
    /\ pc = "AwaitingModel"
    /\ conversationHistory' = Append(conversationHistory, AssistantMessage(content, <<>>))
    /\ pc' = "Done"
    /\ result' = SuccessResult(content, context)
    /\ UNCHANGED <<maxIterations, context, iterations, pending, queries, dispatched,
                   runCount, lastReset>>
    /\ Emit(<<>>)

\* callLLM returns a message without tool calls (BaseAgent.ts:163-167, 200-206)
LLMAnswers(content) ==
    /\ pc = "AwaitingModel"
    /\ conversationHistory' = Append(conversationHistory, AssistantMessage(content, <<>>))
    /\ pc' = "Done"
    /\ result' = SuccessResult(content, context)
    /\ UNCHANGED <<maxIterations, context, iterations, pending, queries, dispatched,
                   runCount, lastReset>>
    /\ Emit(<<TaskCompletedEvent>>)

\* mutant of LLMRequestsTools: the assistant message is not logged
LLMRequestsToolsUnlogged(toolCalls) ==
    /\ pc = "AwaitingModel"
    /\ pc' = "DispatchingTools"
    /\ pending' = toolCalls
    /\ UNCHANGED <<maxIterations, conversationHistory, context, iterations, result,
                   queries, dispatched, runCount, lastReset>>
    /\ Emit(<<>>)

\* mutant of LLMRequestsTools: the batch is handled from its last call to its first
LLMRequestsToolsReversed(toolCalls) ==
    /\ pc = "AwaitingModel"
    /\ conversationHistory' = Append(conversationHistory, AssistantMessage("null", toolCalls))
    /\ pc' = "DispatchingTools"
    /\ pending' = [i \in 1..Len(toolCalls) |-> toolCalls[Len(toolCalls) + 1 - i]]
    /\ UNCHANGED <<maxIterations, context, iterations, result, queries, dispatched,
                   runCount, lastReset>>
    /\ Emit(<<>>)

\* callLLM returns a message with tool calls (BaseAgent.ts:163-169)
LLMRequestsTools(toolCalls) ==
    /\ pc = "AwaitingModel"
    /\ conversationHistory' = Append(conversationHistory, AssistantMessage("null", toolCalls))
    /\ pc' = "DispatchingTools"
    /\ pending' = toolCalls
    /\ UNCHANGED <<maxIterations, context, iterations, result, queries, dispatched,
                   runCount, lastReset>>
    /\ Emit(<<>>)

\* mutant of NextToolCall: `continue` is taken after the first call handled, the
\* rest of the batch is left unhandled
NextToolCallQueriesEarly ==
    /\ pending' = Tail(pending)
    /\ LoopHead(iterations, queries)

\* the end of one pass of the for loop (BaseAgent.ts:169, 195-197): the next
\* call of the batch, or `continue` to the loop condition
NextToolCall ==
    /\ pending' = Tail(pending)
    /\ IF Tail(pending) # <<>>
       THEN /\ pc' = "DispatchingTools"
            /\ UNCHANGED <<iterations, queries, result>>
       ELSE LoopHead(iterations, queries)

\* what is emitted after the last pass of the for loop
AfterToolCallEvents == IF Tail(pending) # <<>> THEN <<>> ELSE CapEvents(iterations)

\* what the catch of the tool call does (BaseAgent.ts:185-194), after the
\* tool_call event of line 171
CatchToolError(toolCall, errorMessage) ==
    /\ conversationHistory' = Append(conversationHistory, ToolErrorMessage(toolCall, errorMessage))
    /\ NextToolCall
    /\ Emit(<<ToolCallEvent(toolCall), ToolFailedEvent(toolCall, errorMessage)>>
            \o AfterToolCallEvents)

\* mutant of ToolArgumentsMalformed: JSON.parse is outside the inner try, and
\* its error reaches the outer catch
ToolArgumentsMalformedRaises ==
    /\ pc = "DispatchingTools"
    /\ JSONParseThrows(Head(pending).arguments)
    /\ pc' = "Failed"
    /\ result' = FailedResult("SyntaxError")
    /\ UNCHANGED <<maxIterations, conversationHistory, context, iterations, pending,
                   queries, dispatched, runCount, lastReset>>
    /\ Emit(<<ToolCallEvent(Head(pending)), AgentErrorEvent("SyntaxError")>>)

\* JSON.parse throws on the arguments (BaseAgent.ts:174)
ToolArgumentsMalformed ==
    /\ pc = "DispatchingTools"
    /\ JSONParseThrows(Head(pending).arguments)
    /\ CatchToolError(Head(pending), "SyntaxError")
    /\ UNCHANGED <<maxIterations, context, dispatched, runCount, lastReset>>

\* mutant of ToolUnknown: the unknown-tool error reaches the outer catch
ToolUnknownAborts ==
    /\ pc = "DispatchingTools"
    /\ ~JSONParseThrows(Head(pending).arguments)
    /\ Head(pending).name \notin RegisteredTools
    /\ pc' = "Failed"
    /\ result' = FailedResult("Unknown tool")
    /\ UNCHANGED <<maxIterations, conversationHistory, context, iterations, pending,
                   queries, dispatched, runCount, lastReset>>
    /\ Emit(<<ToolCallEvent(Head(pending)), AgentErrorEvent("Unknown tool")>>)

\* executeTool finds no handler and throws (BaseAgent.ts:93-97)
ToolUnknown ==
    /\ pc = "DispatchingTools"
    /\ ~JSONParseThrows(Head(pending).arguments)
    /\ Head(pending).name \notin RegisteredTools
    /\ CatchToolError(Head(pending), "Unknown tool")
    /\ UNCHANGED <<maxIterations, context, dispatched, runCount, lastReset>>

\* the handler runs and returns (BaseAgent.ts:98, 175-184); a handler may
\* write a key of the agent's context
ToolSucceeds ==
    /\ pc = "DispatchingTools"
    /\ ~JSONParseThrows(Head(pending).arguments)
    /\ Head(pending).name \in RegisteredTools
    /\ ~HandlerThrows(Head(pending).arguments)
    /\ dispatched' = dispatched + 1
    /\ context' = context \cup {"toolOutput"}
    /\ conversationHistory' = Append(conversationHistory, ToolResultMessage(Head(pending)))
    /\ NextToolCall
    /\ UNCHANGED <<maxIterations, runCount, lastReset>>
    /\ Emit(<<ToolCallEvent(Head(pending))>> \o HandlerProgress
            \o <<ToolResultEvent(Head(pending))>> \o AfterToolCallEvents)

\* mutant of ToolThrows: the handler's error ends the batch, the calls after it
\* are dropped
ToolThrowsSkipsRest ==
    /\ pc = "DispatchingTools"
    /\ ~JSONParseThrows(Head(pending).arguments)
    /\ Head(pending).name \in RegisteredTools
    /\ HandlerThrows(Head(pending).arguments)
    /\ dispatched' = dispatched + 1
    /\ conversationHistory' =
          Append(conversationHistory, ToolErrorMessage(Head(pending), "handler error"))
    /\ pending' = <<>>
    /\ LoopHead(iterations, queries)
    /\ UNCHANGED <<maxIterations, context, runCount, lastReset>>
    /\ Emit(<<ToolCallEvent(Head(pending)), ToolFailedEvent(Head(pending), "handler error")>>
            \o CapEvents(iterations))

\* the handler runs and throws (BaseAgent.ts:98, 175, 185-194)
ToolThrows ==
    /\ pc = "DispatchingTools"
    /\ ~JSONParseThrows(Head(pending).arguments)
    /\ Head(pending).name \in RegisteredTools
    /\ HandlerThrows(Head(pending).arguments)
    /\ dispatched' = dispatched + 1
    /\ CatchToolError(Head(pending), "handler error")
    /\ UNCHANGED <<maxIterations, context, runCount, lastReset>>

\* mutant of ResetHistory: reset() leaves the log as it is
ResetHistoryKeepsLog == conversationHistory

\* the conversation log reset() installs (BaseAgent.ts:230-235)
ResetHistory == <<SystemMessage>>

\* reset() (BaseAgent.ts:229-237), called between runs
Reset ==
    /\ ~Running
    /\ conversationHistory' = ResetHistory
    /\ context' = {}
    /\ pc' = "Idle"
    /\ runCount' = 0
    /\ lastReset' = IF conversationHistory = InitialHistory THEN "fresh" ELSE "used"
    /\ UNCHANGED <<maxIterations, iterations, pending, result, queries, dispatched>>
    /\ emitted' = <<>>

(***************************************************************************)
(* The orchestrator and its three agents.                                  *)
(***************************************************************************)
Agents == {"calendar", "analysis", "report"}

\* maxIterations of the three agents' configurations
CalendarMaxIterations == 5
AnalysisMaxIterations == 10
ReportMaxIterations == 5

ConfiguredMaxIterations(a) ==
    CASE a = "calendar" -> CalendarMaxIterations
      [] a = "analysis" -> AnalysisMaxIterations
      [] a = "report" -> ReportMaxIterations

\* the agents are explored with at most MaxIterations iterations: a batch has
\* any number of tool calls, so the fields a run can leave behind are the same
AgentMaxIterations(a) ==
    IF ConfiguredMaxIterations(a) < MaxIterations
    THEN ConfiguredMaxIterations(a) ELSE MaxIterations

\* the names of the tool specs of the three configurations (config.tools)
CALENDAR_TOOLS == <<"fetch_calendar_events", "filter_meetings", "get_meeting_stats">>

ANALYSIS_TOOLS ==
    <<"analyze_single_meeting", "analyze_all_meetings", "generate_executive_summary",
      "get_action_items", "get_meetings_by_category">>

REPORT_TOOLS == <<"generate_excel_report", "preview_report", "get_report_summary">>

ConfigTools ==
    [a \in Agents |->
        CASE a = "calendar" -> CALENDAR_TOOLS
          [] a = "analysis" -> ANALYSIS_TOOLS
          [] a = "report" -> REPORT_TOOLS]

\* the names of the registerTool calls of the three registerTools methods, in
\* the order of the calls
CalendarRegisterTools == <<"fetch_calendar_events", "filter_meetings", "get_meeting_stats">>

\* mutant of AnalysisRegisterTools: the last registerTool call is missing
AnalysisRegisterToolsWithoutLast ==
    <<"analyze_single_meeting", "analyze_all_meetings", "generate_executive_summary",
      "get_action_items">>

AnalysisRegisterTools ==
    <<"analyze_single_meeting", "analyze_all_meetings", "generate_executive_summary",
      "get_action_items", "get_meetings_by_category">>

ReportRegisterTools == <<"generate_excel_report", "preview_report", "get_report_summary">>

RegisterToolsCalls ==
    [a \in Agents |->
        CASE a = "calendar" -> CalendarRegisterTools
          [] a = "analysis" -> AnalysisRegisterTools
          [] a = "report" -> ReportRegisterTools]

\* registerTool(name, handler): toolHandlers.set(name, handler) (BaseAgent.ts:41-46);
\* the handler is named by the position of its registerTool call
RegisterTool(toolHandlers, name, handler) ==
    [key \in DOMAIN toolHandlers \cup {name} |->
        IF key = name THEN handler ELSE toolHandlers[key]]

RECURSIVE RegisterTools(_, _)
\* toolHandlers after the first n registerTool calls, from the empty Map
RegisterTools(calls, n) ==
    IF n = 0 THEN [key \in {} |-> 0]
    ELSE RegisterTool(RegisterTools(calls, n - 1), calls[n], n)

\* toolHandlers of each agent after its constructor
ToolHandlers == [a \in Agents |-> RegisterTools(RegisterToolsCalls[a], Len(RegisterToolsCalls[a]))]

\* executeTool(name) up to the call of the handler (BaseAgent.ts:93-99)
ExecuteTool(a, name) ==
    IF name \in DOMAIN ToolHandlers[a] THEN <<"handler", ToolHandlers[a][name]>>
    ELSE <<"Unknown tool", 0>>

\* records the fetch collaborator may return (GraphCalendarEvent: id, isCancelled)
MeetingIds == {"m1", "m2"}

Meeting(id, isCancelled) == [id |-> id, isCancelled |-> isCancelled]

MeetingLists ==
    UNION { { list \in [1..n -> [id : MeetingIds, isCancelled : BOOLEAN]] :
                \A i, j \in 1..n : i # j => list[i].id # list[j].id } : n \in 0..MaxMeetings }

\* what Array.filter may keep of a list: the lists of its elements in their order
IsSublist(sub, list) ==
    \E pick \in [1..Len(sub) -> 1..Len(list)] :
        /\ \A i \in 1..Len(sub) : sub[i] = list[pick[i]]
        /\ \A i, j \in 1..Len(sub) : i < j => pick[i] < pick[j]

Sublists(list) == { sub \in MeetingLists : IsSublist(sub, list) }

\* the date ranges the model may pass to fetch_calendar_events
DateRanges == {"march"}

\* what analyzeMeeting returns: the model's analysis, or the default analysis
AnalysisValues == {"analysis", "default"}

\* how a call of analyzeMeeting ends: it returns a value, or it throws (the
\* attendee list is read before its try block, llmService.ts:87-90)
AnalyzeOutcomes == AnalysisValues \cup {"throws"}

\* how the call ended, as the record of the call keeps it
OutcomeKind(outcome) == IF outcome = "throws" THEN "throws" ELSE "returns"

\* what chatCompletion returns for the executive summary (content || '')
SummaryTexts == {"summary", ""}

\* AgentContext: each key holds <<>> when absent, <<value>> when present
EmptyContext ==
    [meetings |-> <<>>, startDate |-> <<>>, endDate |-> <<>>,
     analysisResults |-> <<>>, executiveSummary |-> <<>>]

\* mutant of Spread: a key already present keeps its value
SpreadFirstWriterWins(a, b) ==
    [meetings |-> IF a.meetings # <<>> THEN a.meetings ELSE b.meetings,
     startDate |-> IF a.startDate # <<>> THEN a.startDate ELSE b.startDate,
     endDate |-> IF a.endDate # <<>> THEN a.endDate ELSE b.endDate,
     analysisResults |->
        IF a.analysisResults # <<>> THEN a.analysisResults ELSE b.analysisResults,
     executiveSummary |->
        IF a.executiveSummary # <<>> THEN a.executiveSummary ELSE b.executiveSummary]

\* { ...a, ...b } (BaseAgent.ts:77, index.ts:416)
Spread(a, b) ==
    [meetings |-> IF b.meetings # <<>> THEN b.meetings ELSE a.meetings,
     startDate |-> IF b.startDate # <<>> THEN b.startDate ELSE a.startDate,
     endDate |-> IF b.endDate # <<>> THEN b.endDate ELSE a.endDate,
     analysisResults |->
        IF b.analysisResults # <<>> THEN b.analysisResults ELSE a.analysisResults,
     executiveSummary |->
        IF b.executiveSummary # <<>> THEN b.executiveSummary ELSE a.executiveSummary]

\* the reference to the analysis agent's Map, as a context value
MapReference == <<"AnalysisAgent.analysisResults">>

NoAnalysisResults == [id \in MeetingIds |-> "none"]

AnalysisResultsSize(results) == Cardinality({ id \in MeetingIds : results[id] # "none" })

\* (this.context.meetings as GraphCalendarEvent[]) || []  (part_003:127-129, index.ts:99-101)
ContextMeetings(ctx) == IF ctx.meetings = <<>> THEN <<>> ELSE ctx.meetings[1]

NoOptions ==
    [includeAnalysis |-> FALSE, includeExecutiveSummary |-> FALSE, command |-> <<>>,
     route |-> "none"]

\* a command is its text, character by character
UpperCase ==
    <<"A", "B", "C", "D", "E", "F", "G", "H", "I", "J", "K", "L", "M",
      "N", "O", "P", "Q", "R", "S", "T", "U", "V", "W", "X", "Y", "Z">>

LowerCase ==
    <<"a", "b", "c", "d", "e", "f", "g", "h", "i", "j", "k", "l", "m",
      "n", "o", "p", "q", "r", "s", "t", "u", "v", "w", "x", "y", "z">>

\* command.toLowerCase() (index.ts:505)
ToLowerCase(text) ==
    [i \in 1..Len(text) |->
        IF \E k \in 1..Len(UpperCase) : UpperCase[k] = text[i]
        THEN LowerCase[CHOOSE k \in 1..Len(UpperCase) : UpperCase[k] = text[i]]
        ELSE text[i]]

\* text.includes(keyword)
Includes(text, keyword) ==
    \E i \in 0..(Len(text) - Len(keyword)) : SubSeq(text, i + 1, i + Len(keyword)) = keyword

\* keywords runCommand looks for in the lower-cased command (index.ts:507-534)
CalendarKeywords ==
    { <<"f", "e", "t", "c", "h">>,
      <<"c", "a", "l", "e", "n", "d", "a", "r">>,
      <<"m", "e", "e", "t", "i", "n", "g", "s">> }

AnalysisKeywords ==
    { <<"a", "n", "a", "l", "y", "z">>,
      <<"s", "u", "m", "m", "a", "r">>,
      <<"a", "c", "t", "i", "o", "n", " ", "i", "t", "e", "m">>,
      <<"c", "a", "t", "e", "g", "o", "r">> }

ReportKeywords ==
    { <<"r", "e", "p", "o", "r", "t">>,
      <<"e", "x", "c", "e", "l">>,
      <<"e", "x", "p", "o", "r", "t">>,
      <<"d", "o", "w", "n", "l", "o", "a", "d">> }

\* the commands given to runCommand
FetchMarchCommand ==
    <<"p", "l", "e", "a", "s", "e", " ", "f", "e", "t", "c", "h", " ", "m", "y", " ", "m",
      "e", "e", "t", "i", "n", "g", "s", " ", "f", "o", "r", " ", "M", "a", "r", "c", "h">>

ExcelExportCommand ==
    <<"g", "e", "n", "e", "r", "a", "t", "e", " ", "t", "h", "e", " ", "e", "x", "c", "e",
      "l", " ", "e", "x", "p", "o", "r", "t">>

SummarizeExportCalendarCommand ==
    <<"s", "u", "m", "m", "a", "r", "i", "z", "e", " ", "a", "n", "d", " ", "e", "x", "p",
      "o", "r", "t", " ", "t", "h", "e", " ", "c", "a", "l", "e", "n", "d", "a", "r">>

SummarizeExportCommand ==
    <<"S", "u", "m", "m", "a", "r", "i", "z", "e", " ", "a", "n", "d", " ", "E", "X", "P",
      "O", "R", "T">>

ActionItemsCommand ==
    <<"l", "i", "s", "t", " ", "a", "c", "t", "i", "o", "n", " ", "i", "t", "e", "m", "s">>

DownloadCommand ==
    <<"D", "O", "W", "N", "L", "O", "A", "D", " ", "i", "t">>

HelloCommand ==
    <<"h", "e", "l", "l", "o">>

Commands ==
    { FetchMarchCommand,
      ExcelExportCommand,
      SummarizeExportCalendarCommand,
      SummarizeExportCommand,
      ActionItemsCommand,
      DownloadCommand,
      HelloCommand }

\* mutant of Route: the report keywords are looked for before the analysis keywords
RouteReportFirst(command) ==
    LET lowerCommand == ToLowerCase(command)
    IN  IF \E keyword \in CalendarKeywords : Includes(lowerCommand, keyword) THEN "calendar"
        ELSE IF \E keyword \in ReportKeywords : Includes(lowerCommand, keyword)
        THEN "report"
        ELSE IF \E keyword \in AnalysisKeywords : Includes(lowerCommand, keyword)
        THEN "analysis"
        ELSE "default"

\* the branch of runCommand a command takes (index.ts:505-541)
Route(command) ==
    LET lowerCommand == ToLowerCase(command)
    IN  IF \E keyword \in CalendarKeywords : Includes(lowerCommand, keyword) THEN "calendar"
        ELSE IF \E keyword \in AnalysisKeywords : Includes(lowerCommand, keyword)
        THEN "analysis"
        ELSE IF \E keyword \in ReportKeywords : Includes(lowerCommand, keyword)
        THEN "report"
        ELSE "default"

\* the branch each command takes
RouteTable == [command \in Commands |-> Route(command)]

\* the agent a branch of runCommand runs
RouteAgent(route) ==
    CASE route = "calendar" -> "calendar"
      [] route = "analysis" -> "analysis"
      [] route = "report" -> "report"
      [] route = "default" -> "calendar"

(***************************************************************************)
(* The events the orchestrator emits (index.ts:377-386) and the record of  *)
(* the call in progress.                                                   *)
(***************************************************************************)
\* index.ts:402-404
StartingEvents ==
    <<Event("thinking", <<"Starting report generation...">>),
      Event("thinking", <<"Date range">>)>>

\* index.ts:419
FoundEvent(count) == Event("response", <<"Found", count, "meetings">>)

\* index.ts:430
AnalyzingEvent == Event("thinking", <<"Analyzing meetings with AI...">>)

\* index.ts:445
SummaryEvent == Event("thinking", <<"Generating executive summary...">>)

\* index.ts:450
AnalysisFailedEvent ==
    Event("error", <<"Analysis failed, generating report without AI insights">>)

\* index.ts:453
NotConfiguredEvent == Event("response", <<"LLM not configured - skipping AI analysis">>)

\* index.ts:457
GeneratingEvent == Event("thinking", <<"Generating Excel report...">>)

\* index.ts:470
CompleteEvent == Event("complete", <<"Report generated successfully!">>)

\* index.ts:487
ErrorEvent(errorMessage) == Event("error", <<errorMessage>>)

\* runs: the agents whose run() the call started, in order; events: what the
\* orchestrator emitted; analyzed: how the analyzeMeeting calls ended; report:
\* the workbook generate_excel_report wrote; summarized: the text the last
\* generateExecutiveSummary call returned; configured: what isLLMConfigured()
\* returned to the call, <<>> while the call has not evaluated it
NoCallLog ==
    [runs |-> <<>>, events |-> <<>>, analyzed |-> {}, report |-> <<>>, summarized |-> <<>>,
     configured |-> <<>>]

\* the call starts the runs and emits the events given
Logs(runsStarted, eventsEmitted) ==
    callLog' = [callLog EXCEPT !.runs = @ \o runsStarted, !.events = @ \o eventsEmitted]

\* includeAnalysis && isLLMConfigured() (index.ts:429, 452): the flag is read
\* only when includeAnalysis is true
LogsConfigured(runsStarted, eventsEmitted, llmConfigured) ==
    callLog' = [callLog EXCEPT !.runs = @ \o runsStarted, !.events = @ \o eventsEmitted,
                               !.configured = IF options.includeAnalysis
                                              THEN <<llmConfigured>> ELSE <<>>]

(***************************************************************************)
(* What generateReport and runCommand return.                              *)
(***************************************************************************)
NothingReturned ==
    [success |-> FALSE, message |-> "nothing returned", error |-> "none", filename |-> <<>>]

\* mutant of NoMeetingsReturn: the no-data case is reported as an error
NoMeetingsReturnAsFailure ==
    [success |-> FALSE, message |-> "Failed to generate report",
     error |-> "No meetings found in the specified date range", filename |-> <<>>]

\* index.ts:422-425
NoMeetingsReturn ==
    [success |-> FALSE, message |-> "No meetings found in the specified date range",
     error |-> "none", filename |-> <<>>]

\* mutant of FailureReturn: the error of the failed run is dropped
FailureReturnWithoutError(errorMessage) ==
    [success |-> FALSE, message |-> "Failed to generate report", error |-> "none",
     filename |-> <<>>]

\* index.ts:485-493
FailureReturn(errorMessage) ==
    [success |-> FALSE, message |-> "Failed to generate report", error |-> errorMessage,
     filename |-> <<>>]

\* reportData?.downloadFilename (index.ts:475-482): undefined unless the
\* context of the report agent has that key, and no handler writes it
DownloadFilename(data) ==
    IF data # <<>> /\ "downloadFilename" \in DOMAIN data[1]
    THEN data[1].downloadFilename ELSE <<>>

\* index.ts:479-484
SuccessReturn(count, data) ==
    [success |-> TRUE, message |-> <<"Report generated with", count, "meetings">>,
     error |-> "none", filename |-> DownloadFilename(data)]

\* the AgentResponse runCommand passes on (index.ts:514, 527, 537, 541)
CommandReturn(response) ==
    [success |-> response.success, message |-> response.message, error |-> response.error,
     filename |-> <<>>]

(***************************************************************************)
(* The orchestrator after construction (index.ts:335-352, part_003:97-111, *)
(* part_005:74-89).                                                        *)
(***************************************************************************)
OrchInit ==
    /\ stage = "idle"
    /\ options = NoOptions
    /\ agent = "none"
    /\ agentPc = "Idle"
    /\ agentIterations = 0
    /\ agentResult = NoResult
    /\ agentContext = [a \in Agents |-> EmptyContext]
    /\ historyFresh = [a \in Agents |-> TRUE]
    /\ meetings = <<>>
    /\ analysisResults = NoAnalysisResults
    /\ executiveSummary = ""
    /\ sharedContext = EmptyContext
    /\ stageMeetings = <<>>
    /\ lastDownload = <<>>
    /\ returned = NothingReturned
    /\ recordsFetched = FALSE
    /\ callCount = 0
    /\ callLog = NoCallLog

(***************************************************************************)
(* run() of the agent the orchestrator awaits (BaseAgent.ts:146-224).      *)
(***************************************************************************)
\* agent a starts run(): the user message is logged and the first query issued
StartRun(a) ==
    /\ agent' = a
    /\ historyFresh' = [historyFresh EXCEPT ![a] = FALSE]
    /\ agentPc' = "AwaitingModel"
    /\ agentIterations' = 1
    /\ agentResult' = NoResult

RunFinished == agent # "none" /\ agentPc \in {"Done", "Failed"}

\* callLLM throws (BaseAgent.ts:128-131, 207-215)
AgentLLMFails(errorMessage) ==
    /\ agentPc = "AwaitingModel"
    /\ agentPc' = "Failed"
    /\ agentResult' = FailedResult(errorMessage)
    /\ UNCHANGED <<stage, options, agent, agentIterations, agentContext, historyFresh,
                   meetings, analysisResults, executiveSummary, sharedContext,
                   stageMeetings, lastDownload, returned, recordsFetched, callCount,
                   callLog>>

\* the model answers without tool calls (BaseAgent.ts:200-206)
AgentLLMAnswers(content) ==
    /\ agentPc = "AwaitingModel"
    /\ agentPc' = "Done"
    /\ agentResult' = SuccessResult(content, agentContext[agent])
    /\ UNCHANGED <<stage, options, agent, agentIterations, agentContext, historyFresh,
                   meetings, analysisResults, executiveSummary, sharedContext,
                   stageMeetings, lastDownload, returned, recordsFetched, callCount,
                   callLog>>

\* the model requests tool calls (BaseAgent.ts:167-169)
AgentLLMRequestsTools ==
    /\ agentPc = "AwaitingModel"
    /\ agentPc' = "DispatchingTools"
    /\ UNCHANGED <<stage, options, agent, agentIterations, agentResult, agentContext,
                   historyFresh, meetings, analysisResults, executiveSummary,
                   sharedContext, stageMeetings, lastDownload, returned, recordsFetched,
                   callCount, callLog>>

\* a tool call of the batch is being handled by agent a; "BatchOpen": the
\* batch has a handled call and may end
Dispatching(a) == agent = a /\ agentPc \in {"DispatchingTools", "BatchOpen"}

\* the batch is over (BaseAgent.ts:195-197, 158-159, 218-223)
AgentBatchEnds ==
    /\ agentPc = "BatchOpen"
    /\ IF agentIterations < AgentMaxIterations(agent)
       THEN /\ agentIterations' = agentIterations + 1
            /\ agentPc' = "AwaitingModel"
            /\ agentResult' = NoResult
       ELSE /\ agentIterations' = agentIterations
            /\ agentPc' = "Failed"
            /\ agentResult' = MaxIterationsResult
    /\ UNCHANGED <<stage, options, agent, agentContext, historyFresh, meetings,
                   analysisResults, executiveSummary, sharedContext, stageMeetings,
                   lastDownload, returned, recordsFetched, callCount, callLog>>

\* a tool call that changes no field: a read-only tool, an unknown tool,
\* malformed arguments, a handler that throws before it writes
ToolWithoutEffect ==
    /\ \E a \in Agents : Dispatching(a)
    /\ agentPc' = "BatchOpen"
    /\ UNCHANGED <<stage, options, agent, agentIterations, agentResult, agentContext,
                   historyFresh, meetings, analysisResults, executiveSummary,
                   sharedContext, stageMeetings, lastDownload, returned, recordsFetched,
                   callCount, callLog>>

\* fetch_calendar_events (part_005:113-150)
FetchCalendarEvents(range, fetched) ==
    /\ Dispatching("calendar")
    /\ agentPc' = "BatchOpen"
    /\ meetings' = fetched
    /\ agentContext' = [agentContext EXCEPT !["calendar"] =
                          [@ EXCEPT !.meetings = <<fetched>>,
                                    !.startDate = <<range>>,
                                    !.endDate = <<range>>]]
    /\ recordsFetched' = (recordsFetched \/ fetched # <<>>)
    /\ UNCHANGED <<stage, options, agent, agentIterations, agentResult, historyFresh,
                   analysisResults, executiveSummary, sharedContext, stageMeetings,
                   lastDownload, returned, callCount, callLog>>

\* filter_meetings (part_005:153-203)
FilterMeetings(filtered) ==
    /\ Dispatching("calendar")
    /\ filtered \in Sublists(meetings)
    /\ agentPc' = "BatchOpen"
    /\ meetings' = filtered
    /\ agentContext' = [agentContext EXCEPT !["calendar"].meetings = <<filtered>>]
    /\ UNCHANGED <<stage, options, agent, agentIterations, agentResult, historyFresh,
                   analysisResults, executiveSummary, sharedContext, stageMeetings,
                   lastDownload, returned, recordsFetched, callCount, callLog>>

\* analyze_single_meeting for a meeting of the context (part_003:133-153)
AnalyzeSingleMeeting(meetingId, outcome) ==
    /\ Dispatching("analysis")
    /\ \E i \in 1..Len(ContextMeetings(agentContext["analysis"])) :
          ContextMeetings(agentContext["analysis"])[i].id = meetingId
    /\ agentPc' = "BatchOpen"
    /\ analysisResults' =
          IF outcome = "throws" THEN analysisResults
          ELSE [analysisResults EXCEPT ![meetingId] = outcome]
    /\ callLog' = [callLog EXCEPT !.analyzed = @ \cup {OutcomeKind(outcome)}]
    /\ UNCHANGED <<stage, options, agent, agentIterations, agentResult, agentContext,
                   historyFresh, meetings, executiveSummary, sharedContext,
                   stageMeetings, lastDownload, returned, recordsFetched, callCount>>

\* mutant of AnalyzeAllMeetings: a record whose analyzeMeeting call throws gets
\* the default analysis
AnalyzeAllMeetingsStoresDefault(outcomes) ==
    LET list == ContextMeetings(agentContext["analysis"])
        analysed == { list[i].id : i \in { j \in 1..Len(list) : ~list[j].isCancelled } }
    IN  /\ Dispatching("analysis")
        /\ list # <<>>
        /\ agentPc' = "BatchOpen"
        /\ analysisResults' =
              [id \in MeetingIds |->
                  IF id \notin analysed THEN analysisResults[id]
                  ELSE IF outcomes[id] = "throws" THEN "default" ELSE outcomes[id]]
        /\ agentContext' = [agentContext EXCEPT !["analysis"].analysisResults = MapReference]
        /\ callLog' = [callLog EXCEPT
                          !.analyzed = @ \cup { OutcomeKind(outcomes[id]) : id \in analysed }]
        /\ UNCHANGED <<stage, options, agent, agentIterations, agentResult, historyFresh,
                       meetings, executiveSummary, sharedContext, stageMeetings,
                       lastDownload, returned, recordsFetched, callCount>>

\* analyze_all_meetings (part_003:156-205); outcomes gives how analyzeMeeting
\* ends for each record: a record whose call throws is skipped (182-184)
AnalyzeAllMeetings(outcomes) ==
    LET list == ContextMeetings(agentContext["analysis"])
        analysed == { list[i].id : i \in { j \in 1..Len(list) : ~list[j].isCancelled } }
    IN  /\ Dispatching("analysis")
        /\ list # <<>>
        /\ agentPc' = "BatchOpen"
        /\ analysisResults' =
              [id \in MeetingIds |->
                  IF id \in analysed /\ outcomes[id] # "throws"
                  THEN outcomes[id] ELSE analysisResults[id]]
        /\ agentContext' = [agentContext EXCEPT !["analysis"].analysisResults = MapReference]
        /\ callLog' = [callLog EXCEPT
                          !.analyzed = @ \cup { OutcomeKind(outcomes[id]) : id \in analysed }]
        /\ UNCHANGED <<stage, options, agent, agentIterations, agentResult, historyFresh,
                       meetings, executiveSummary, sharedContext, stageMeetings,
                       lastDownload, returned, recordsFetched, callCount>>

\* generate_executive_summary (part_003:208-226)
GenerateExecutiveSummary(text) ==
    /\ Dispatching("analysis")
    /\ AnalysisResultsSize(analysisResults) # 0
    /\ agentPc' = "BatchOpen"
    /\ executiveSummary' = text
    /\ callLog' = [callLog EXCEPT !.summarized = <<text>>]
    /\ UNCHANGED <<stage, options, agent, agentIterations, agentResult, agentContext,
                   historyFresh, meetings, analysisResults, sharedContext,
                   stageMeetings, lastDownload, returned, recordsFetched, callCount>>

\* generateFilename(startDate || new Date(), endDate || new Date()) (index.ts:149-151)
GenerateFilename(ctx) ==
    IF ctx.startDate = <<>> THEN <<"today">> ELSE ctx.startDate

\* generate_excel_report with meetings in the context (index.ts:113-240)
GenerateExcelReport ==
    /\ Dispatching("report")
    /\ ContextMeetings(agentContext["report"]) # <<>>
    /\ agentPc' = "BatchOpen"
    /\ lastDownload' = GenerateFilename(agentContext["report"])
    /\ callLog' = [callLog EXCEPT !.report = GenerateFilename(agentContext["report"])]
    /\ UNCHANGED <<stage, options, agent, agentIterations, agentResult, agentContext,
                   historyFresh, meetings, analysisResults, executiveSummary,
                   sharedContext, stageMeetings, returned, recordsFetched, callCount>>

(***************************************************************************)
(* generateReport (index.ts:391-494).                                      *)
(***************************************************************************)
\* the call returns value to its caller: its locals go out of scope
Return(value) ==
    /\ returned' = value
    /\ stage' = IF stage = "command" THEN "commandReturned" ELSE "reportReturned"
    /\ options' = NoOptions
    /\ agent' = "none"
    /\ agentPc' = "Idle"
    /\ agentIterations' = 0
    /\ agentResult' = NoResult
    /\ stageMeetings' = <<>>

\* index.ts:398-409
GenerateReport(includeAnalysis, includeExecutiveSummary) ==
    /\ stage = "idle"
    /\ callCount < MaxCalls
    /\ callCount' = callCount + 1
    /\ stage' = "stage1"
    /\ options' = [includeAnalysis |-> includeAnalysis,
                   includeExecutiveSummary |-> includeExecutiveSummary,
                   command |-> <<>>, route |-> "none"]
    /\ StartRun("calendar")
    /\ Logs(<<"calendar">>, StartingEvents)
    /\ UNCHANGED <<agentContext, meetings, analysisResults, executiveSummary,
                   sharedContext, stageMeetings, lastDownload, returned, recordsFetched>>

\* Stage 3 is entered with SharedContext shared (index.ts:456-464)
EnterStage3(shared) ==
    /\ sharedContext' = shared
    /\ agentContext' = [agentContext EXCEPT !["report"] = Spread(@, shared)]
    /\ stage' = "stage3"
    /\ StartRun("report")

\* mutant of Stage1Fails: the failure of the acquisition run is ignored
Stage1FailsContinues ==
    /\ stage = "stage1" /\ RunFinished
    /\ ~agentResult.success
    /\ stageMeetings' = meetings
    /\ EnterStage3(agentContext["calendar"])
    /\ Logs(<<"report">>, <<GeneratingEvent>>)
    /\ UNCHANGED <<options, meetings, analysisResults, executiveSummary, lastDownload,
                   returned, recordsFetched, callCount>>

\* the acquisition run failed (index.ts:411-413, 485-493)
Stage1Fails ==
    /\ stage = "stage1" /\ RunFinished
    /\ ~agentResult.success
    /\ Return(FailureReturn(agentResult.error))
    /\ Logs(<<>>, <<ErrorEvent(agentResult.error)>>)
    /\ UNCHANGED <<agentContext, historyFresh, meetings, analysisResults,
                   executiveSummary, sharedContext, lastDownload, recordsFetched, callCount>>

\* mutant of Stage1NoMeetings: the report is assembled from no meetings
Stage1NoMeetingsContinues ==
    /\ stage = "stage1" /\ RunFinished
    /\ agentResult.success
    /\ meetings = <<>>
    /\ stageMeetings' = meetings
    /\ EnterStage3(agentContext["calendar"])
    /\ Logs(<<"report">>, <<FoundEvent(Len(meetings)), GeneratingEvent>>)
    /\ UNCHANGED <<options, meetings, analysisResults, executiveSummary, lastDownload,
                   returned, recordsFetched, callCount>>

\* the acquisition agent holds no meetings (index.ts:415-426)
Stage1NoMeetings ==
    /\ stage = "stage1" /\ RunFinished
    /\ agentResult.success
    /\ meetings = <<>>
    /\ sharedContext' = agentContext["calendar"]
    /\ Return(NoMeetingsReturn)
    /\ Logs(<<>>, <<FoundEvent(Len(meetings))>>)
    /\ UNCHANGED <<agentContext, historyFresh, meetings, analysisResults,
                   executiveSummary, lastDownload, recordsFetched, callCount>>

\* mutant of Stage1ToStage2: the analysis run is started without awaiting the
\* acquisition run
Stage1ToStage2Unawaited(llmConfigured) ==
    /\ stage = "stage1"
    /\ meetings # <<>>
    /\ options.includeAnalysis /\ llmConfigured
    /\ sharedContext' = agentContext["calendar"]
    /\ stageMeetings' = meetings
    /\ agentContext' = [agentContext EXCEPT !["analysis"] = Spread(@, agentContext["calendar"])]
    /\ stage' = "stage2"
    /\ StartRun("analysis")
    /\ LogsConfigured(<<"analysis">>, <<FoundEvent(Len(meetings)), AnalyzingEvent>>,
                      llmConfigured)
    /\ UNCHANGED <<options, meetings, analysisResults, executiveSummary, lastDownload,
                   returned, recordsFetched, callCount>>

\* mutant of Stage1ToStage2: Stage 2 is entered whatever isLLMConfigured() returns
Stage1ToStage2IgnoresFlag(llmConfigured) ==
    /\ stage = "stage1" /\ RunFinished
    /\ agentResult.success
    /\ meetings # <<>>
    /\ options.includeAnalysis
    /\ sharedContext' = agentContext["calendar"]
    /\ stageMeetings' = meetings
    /\ agentContext' = [agentContext EXCEPT !["analysis"] = Spread(@, agentContext["calendar"])]
    /\ stage' = "stage2"
    /\ StartRun("analysis")
    /\ LogsConfigured(<<"analysis">>, <<FoundEvent(Len(meetings)), AnalyzingEvent>>,
                      llmConfigured)
    /\ UNCHANGED <<options, meetings, analysisResults, executiveSummary, lastDownload,
                   returned, recordsFetched, callCount>>

\* Stage 2 is entered; llmConfigured is what isLLMConfigured() returns (index.ts:415-437)
Stage1ToStage2(llmConfigured) ==
    /\ stage = "stage1" /\ RunFinished
    /\ agentResult.success
    /\ meetings # <<>>
    /\ options.includeAnalysis /\ llmConfigured
    /\ sharedContext' = agentContext["calendar"]
    /\ stageMeetings' = meetings
    /\ agentContext' = [agentContext EXCEPT !["analysis"] = Spread(@, agentContext["calendar"])]
    /\ stage' = "stage2"
    /\ StartRun("analysis")
    /\ LogsConfigured(<<"analysis">>, <<FoundEvent(Len(meetings)), AnalyzingEvent>>,
                      llmConfigured)
    /\ UNCHANGED <<options, meetings, analysisResults, executiveSummary, lastDownload,
                   returned, recordsFetched, callCount>>

\* Stage 2 is skipped (index.ts:415-429, 452-464)
Stage1ToStage3(llmConfigured) ==
    /\ stage = "stage1" /\ RunFinished
    /\ agentResult.success
    /\ meetings # <<>>
    /\ ~(options.includeAnalysis /\ llmConfigured)
    /\ stageMeetings' = meetings
    /\ EnterStage3(agentContext["calendar"])
    /\ LogsConfigured(<<"report">>,
                      <<FoundEvent(Len(meetings))>>
                      \o (IF options.includeAnalysis /\ ~llmConfigured
                          THEN <<NotConfiguredEvent>> ELSE <<>>)
                      \o <<GeneratingEvent>>,
                      llmConfigured)
    /\ UNCHANGED <<options, meetings, analysisResults, executiveSummary, lastDownload,
                   returned, recordsFetched, callCount>>

\* the analysis run succeeded and the summary is requested (index.ts:439-446)
Stage2ToSummary ==
    /\ stage = "stage2" /\ RunFinished
    /\ agentResult.success
    /\ options.includeExecutiveSummary
    /\ sharedContext' = [sharedContext EXCEPT !.analysisResults = MapReference]
    /\ stage' = "stage2summary"
    /\ StartRun("analysis")
    /\ Logs(<<"analysis">>, <<SummaryEvent>>)
    /\ UNCHANGED <<options, agentContext, meetings, analysisResults, executiveSummary,
                   stageMeetings, lastDownload, returned, recordsFetched, callCount>>

\* the analysis run succeeded and no summary is requested (index.ts:439-444, 456-464)
Stage2ToStage3 ==
    /\ stage = "stage2" /\ RunFinished
    /\ agentResult.success
    /\ ~options.includeExecutiveSummary
    /\ EnterStage3([sharedContext EXCEPT !.analysisResults = MapReference])
    /\ Logs(<<"report">>, <<GeneratingEvent>>)
    /\ UNCHANGED <<options, meetings, analysisResults, executiveSummary, stageMeetings,
                   lastDownload, returned, recordsFetched, callCount>>

\* mutant of Stage2Fails: the failure of the analysis run ends the call
Stage2FailsAborts ==
    /\ stage = "stage2" /\ RunFinished
    /\ ~agentResult.success
    /\ Return(FailureReturn(agentResult.error))
    /\ Logs(<<>>, <<ErrorEvent(agentResult.error)>>)
    /\ UNCHANGED <<agentContext, historyFresh, meetings, analysisResults,
                   executiveSummary, sharedContext, lastDownload, recordsFetched,
                   callCount>>

\* the analysis run failed (index.ts:449-451, 456-464)
Stage2Fails ==
    /\ stage = "stage2" /\ RunFinished
    /\ ~agentResult.success
    /\ EnterStage3(sharedContext)
    /\ Logs(<<"report">>, <<AnalysisFailedEvent, GeneratingEvent>>)
    /\ UNCHANGED <<options, meetings, analysisResults, executiveSummary, stageMeetings,
                   lastDownload, returned, recordsFetched, callCount>>

\* mutant of SummaryReturns: the summary is not copied into SharedContext
SummaryReturnsWithoutCopy ==
    /\ stage = "stage2summary" /\ RunFinished
    /\ EnterStage3(sharedContext)
    /\ Logs(<<"report">>, <<GeneratingEvent>>)
    /\ UNCHANGED <<options, meetings, analysisResults, executiveSummary, stageMeetings,
                   lastDownload, returned, recordsFetched, callCount>>

\* the summary run returned, whatever its result (index.ts:446-447, 456-464)
SummaryReturns ==
    /\ stage = "stage2summary" /\ RunFinished
    /\ EnterStage3([sharedContext EXCEPT !.executiveSummary = <<executiveSummary>>])
    /\ Logs(<<"report">>, <<GeneratingEvent>>)
    /\ UNCHANGED <<options, meetings, analysisResults, executiveSummary, stageMeetings,
                   lastDownload, returned, recordsFetched, callCount>>

\* the report run failed (index.ts:466-468, 485-493)
Stage3Fails ==
    /\ stage = "stage3" /\ RunFinished
    /\ ~agentResult.success
    /\ Return(FailureReturn(agentResult.error))
    /\ Logs(<<>>, <<ErrorEvent(agentResult.error)>>)
    /\ UNCHANGED <<agentContext, historyFresh, meetings, analysisResults,
                   executiveSummary, sharedContext, lastDownload, recordsFetched, callCount>>

\* the report run succeeded (index.ts:470-484)
Stage3Succeeds ==
    /\ stage = "stage3" /\ RunFinished
    /\ agentResult.success
    /\ Return(SuccessReturn(Len(stageMeetings), agentResult.data))
    /\ Logs(<<>>, <<CompleteEvent>>)
    /\ UNCHANGED <<agentContext, historyFresh, meetings, analysisResults,
                   executiveSummary, sharedContext, lastDownload, recordsFetched, callCount>>

(***************************************************************************)
(* runCommand (index.ts:499-542).                                          *)
(***************************************************************************)
RunCommand(command) ==
    /\ stage = "idle"
    /\ callCount < MaxCalls
    /\ callCount' = callCount + 1
    /\ stage' = "command"
    /\ options' = [NoOptions EXCEPT !.command = command, !.route = RouteTable[command]]
    /\ agentContext' =
          IF RouteTable[command] \in {"analysis", "report"}
          THEN [agentContext EXCEPT
                  ![RouteAgent(RouteTable[command])] = Spread(@, sharedContext)]
          ELSE agentContext
    /\ StartRun(RouteAgent(RouteTable[command]))
    /\ Logs(<<RouteAgent(RouteTable[command])>>, <<>>)
    /\ UNCHANGED <<meetings, analysisResults, executiveSummary, sharedContext,
                   stageMeetings, lastDownload, returned, recordsFetched>>

\* what runCommand does to SharedContext after the run (index.ts:513, 525-526)
SharedContextAfterCommand(route) ==
    CASE route = "calendar" -> agentContext["calendar"]
      [] route = "analysis" ->
            [sharedContext EXCEPT !.analysisResults = MapReference,
                                  !.executiveSummary = <<executiveSummary>>]
      [] route \in {"report", "default"} -> sharedContext

CommandReturns ==
    /\ stage = "command" /\ RunFinished
    /\ sharedContext' = SharedContextAfterCommand(options.route)
    /\ Return(CommandReturn(agentResult))
    /\ UNCHANGED <<agentContext, historyFresh, meetings, analysisResults,
                   executiveSummary, lastDownload, recordsFetched, callCount, callLog>>

(***************************************************************************)
(* reset() of the orchestrator (index.ts:547-552): BaseAgent.reset for the *)
(* calendar and the report agent, AnalysisAgent.reset (part_003:283-287).  *)
(***************************************************************************)
\* CalendarAgent has no reset of its own: its field meetings is kept
CalendarAgentReset == meetings

OrchestratorReset ==
    /\ stage = "idle"
    /\ agentContext' = [a \in Agents |-> EmptyContext]
    /\ historyFresh' = [a \in Agents |-> TRUE]
    /\ meetings' = CalendarAgentReset
    /\ analysisResults' = NoAnalysisResults
    /\ executiveSummary' = ""
    /\ sharedContext' = EmptyContext
    /\ recordsFetched' = FALSE
    /\ UNCHANGED <<stage, options, agent, agentPc, agentIterations, agentResult,
                   stageMeetings, lastDownload, returned, callCount, callLog>>

\* the caller of generateReport or runCommand has taken the value returned
CallerResumes ==
    /\ stage \in {"reportReturned", "commandReturned"}
    /\ stage' = "idle"
    /\ returned' = NothingReturned
    /\ callLog' = NoCallLog
    /\ UNCHANGED <<options, agent, agentPc, agentIterations, agentResult, agentContext,
                   historyFresh, meetings, analysisResults, executiveSummary,
                   sharedContext, stageMeetings, lastDownload, recordsFetched, callCount>>

(***************************************************************************)
(* analyzeMeeting (llmService.ts:87-162) and the loop of the               *)
(* analyze_all_meetings handler (part_003:156-205).                        *)
(***************************************************************************)
\* the categories analyzeMeeting accepts (llmService.ts:135-146)
ValidCategories ==
    {"internal-team", "external-client", "one-on-one", "all-hands", "interview",
     "training", "review", "planning", "social", "other"}

\* bodyPreview?.substring(0, 100)
SummaryLimit == 100

ShortDescription == <<"a", "g", "e", "n", "d", "a">>

LongDescription == [i \in 1..(SummaryLimit + 1) |-> "x"]

\* bodyPreview of a record: undefined, '', a short and a long text
BodyPreviews == {<<>>, <<<<>>>>, <<ShortDescription>>, <<LongDescription>>}

\* the records of the context: the id is the position, attendees tells whether
\* the record has its attendees array
RecordLists ==
    UNION { { list \in [1..n -> [id : 1..MaxBatchRecords, isCancelled : BOOLEAN,
                                 bodyPreview : BodyPreviews, attendees : BOOLEAN]] :
                \A i \in 1..n : list[i].id = i } : n \in 0..MaxBatchRecords }

\* what chatCompletion does and what JSON.parse makes of its text: the request
\* throws, the text is not JSON, it is JSON null, a JSON string or number, or
\* an object with the category given ("undefined" when it has none)
ChatReplies ==
    { [kind |-> k, category |-> "undefined"] : k \in {"throws", "malformed", "null", "primitive"} }
    \cup { [kind |-> "object", category |-> c] : c \in ValidCategories \cup {"urgent", "undefined"} }

NoReply == [kind |-> "none", category |-> "undefined"]

\* text.substring(0, end)
Substring(text, end) == SubSeq(text, 1, IF end < Len(text) THEN end ELSE Len(text))

NoAnalysis == [summary |-> <<>>, category |-> "none", actionItems |-> <<>>, keyTopics |-> <<>>]

\* the object of the catch (llmService.ts:155-160)
DefaultAnalysis(event) ==
    [summary |-> IF event.bodyPreview = <<>> \/ Substring(event.bodyPreview[1], SummaryLimit) = <<>>
                 THEN <<"No description available">>
                 ELSE Substring(event.bodyPreview[1], SummaryLimit),
     category |-> "other",
     actionItems |-> <<>>,
     keyTopics |-> <<>>]

\* the parsed object after the category check (llmService.ts:132-151)
ParsedAnalysis(reply) ==
    [summary |-> <<"summary of the model">>,
     category |-> IF reply.category \in ValidCategories THEN reply.category ELSE "other",
     actionItems |-> <<"action item of the model">>,
     keyTopics |-> <<"topic of the model">>]

\* mutant of AnalyzeMeeting: the catch passes the error on
AnalyzeMeetingRethrows(event, reply) ==
    IF ~event.attendees THEN [thrown |-> TRUE, analysis |-> NoAnalysis]
    ELSE IF reply.kind = "object" THEN [thrown |-> FALSE, analysis |-> ParsedAnalysis(reply)]
    ELSE [thrown |-> TRUE, analysis |-> NoAnalysis]

\* analyzeMeeting(event) when chatCompletion does reply (llmService.ts:87-162):
\* event.attendees.map is outside the try; inside it, a failed request, text
\* that is not JSON, and a property access or assignment on null or on a
\* primitive all end in the catch
AnalyzeMeeting(event, reply) ==
    IF ~event.attendees THEN [thrown |-> TRUE, analysis |-> NoAnalysis]
    ELSE IF reply.kind = "object" THEN [thrown |-> FALSE, analysis |-> ParsedAnalysis(reply)]
    ELSE [thrown |-> FALSE, analysis |-> DefaultAnalysis(event)]

NoLoopResults == [id \in 1..MaxBatchRecords |-> NoAnalysis]

\* the handler is not running
AnalyzeIdle ==
    /\ loopMeetings = <<>>
    /\ loopIndex = 1
    /\ loopResults = NoLoopResults
    /\ loopReplies = <<>>
    /\ loopReturned = "running"

\* the handler is entered with the records of the context (part_003:157)
AnalyzeInit ==
    /\ loopMeetings \in RecordLists
    /\ loopIndex = 1
    /\ loopResults = NoLoopResults
    /\ loopReplies = <<>>
    /\ loopReturned = "running"

\* part_003:159-164
LoopNoMeetings ==
    /\ loopReturned = "running"
    /\ Len(loopMeetings) = 0
    /\ loopReturned' = "error"
    /\ UNCHANGED <<loopMeetings, loopIndex, loopResults, loopReplies>>

\* part_003:170
LoopSkipsCancelled ==
    /\ loopReturned = "running"
    /\ loopIndex <= Len(loopMeetings)
    /\ loopMeetings[loopIndex].isCancelled
    /\ loopIndex' = loopIndex + 1
    /\ loopReplies' = Append(loopReplies, NoReply)
    /\ UNCHANGED <<loopMeetings, loopResults, loopReturned>>

\* part_003:172-184
LoopAnalyzes(reply) ==
    /\ loopReturned = "running"
    /\ loopIndex <= Len(loopMeetings)
    /\ ~loopMeetings[loopIndex].isCancelled
    /\ loopResults' =
          IF AnalyzeMeeting(loopMeetings[loopIndex], reply).thrown THEN loopResults
          ELSE [loopResults EXCEPT ![loopMeetings[loopIndex].id] =
                   AnalyzeMeeting(loopMeetings[loopIndex], reply).analysis]
    /\ loopIndex' = loopIndex + 1
    /\ loopReplies' = Append(loopReplies, reply)
    /\ UNCHANGED <<loopMeetings, loopReturned>>

\* part_003:187-204
LoopReturns ==
    /\ loopReturned = "running"
    /\ Len(loopMeetings) > 0
    /\ loopIndex > Len(loopMeetings)
    /\ loopReturned' = "success"
    /\ UNCHANGED <<loopMeetings, loopIndex, loopResults, loopReplies>>

(***************************************************************************)
(* The context of one agent as an object with an identity: what            *)
(* this.context refers to, what the handlers write in place, and what the  *)
(* data field of a success result refers to (BaseAgent.ts:205).            *)
(***************************************************************************)
ObjectIds == 1..MaxObjects

\* the partial contexts the orchestrator passes to setContext
SharedContexts ==
    { [EmptyContext EXCEPT !.meetings = <<list>>] : list \in MeetingLists }

\* this.context = {} of the constructor (BaseAgent.ts:26)
ContextInit ==
    /\ objects = [o \in ObjectIds |-> EmptyContext]
    /\ thisContext = 1
    /\ heldResult = <<>>

\* fetch_calendar_events assigns three keys of this.context (part_005:131-133)
FetchWritesContext(range, fetched) ==
    /\ objects' = [objects EXCEPT ![thisContext] =
                      [@ EXCEPT !.meetings = <<fetched>>,
                                !.startDate = <<range>>,
                                !.endDate = <<range>>]]
    /\ UNCHANGED <<thisContext, heldResult>>

\* analyze_all_meetings assigns this.context.analysisResults (part_003:188)
AnalyzeWritesContext ==
    /\ objects' = [objects EXCEPT ![thisContext].analysisResults = MapReference]
    /\ UNCHANGED <<thisContext, heldResult>>

\* setContext (BaseAgent.ts:76-78): this.context becomes a new object
SetContext(partial) ==
    /\ thisContext < MaxObjects
    /\ thisContext' = thisContext + 1
    /\ objects' = [objects EXCEPT ![thisContext + 1] = Spread(objects[thisContext], partial)]
    /\ UNCHANGED heldResult

\* reset (BaseAgent.ts:236): this.context becomes a new empty object
ResetContext ==
    /\ thisContext < MaxObjects
    /\ thisContext' = thisContext + 1
    /\ objects' = [objects EXCEPT ![thisContext + 1] = EmptyContext]
    /\ UNCHANGED heldResult

\* run() returns {success: true, data: this.context} (BaseAgent.ts:202-206);
\* read: the content of data as the caller read it at the return
RunReturnsData ==
    /\ heldResult = <<>>
    /\ heldResult' = <<[data |-> thisContext, read |-> objects[thisContext]]>>
    /\ UNCHANGED <<objects, thisContext>>

(***************************************************************************)
(* The rows of generate_excel_report (index.ts:113-146) and                *)
(* transformEventsToReportRows (excelService.ts:27-67).                    *)
(***************************************************************************)
\* GraphCalendarEvent: id, subject, isCancelled, start and end (hours)
ReportEvents ==
    { [id |-> id, subject |-> <<"subject of", id>>, isCancelled |-> c, start |-> 9, end |-> e] :
        id \in MeetingIds, c \in BOOLEAN, e \in {9, 10} }

ReportMeetingLists ==
    UNION { { list \in [1..n -> ReportEvents] :
                \A i, j \in 1..n : i # j => list[i].id # list[j].id } :
            n \in 0..MaxReportMeetings }

\* the analysis analyzeMeeting returned for the meeting with that id
StoredAnalysis(id) == [summary |-> <<"summary of", id>>, category |-> <<"category of", id>>]

\* the Maps the context may hold: an id is a key or not
AnalysisMaps ==
    { [id \in MeetingIds |-> IF id \in keys THEN <<StoredAnalysis(id)>> ELSE <<>>] :
        keys \in SUBSET MeetingIds }

\* excelService.ts:27-31
HasZeroDuration(event) == event.start = event.end

NotCancelled(event) == ~event.isCancelled

NotZeroDuration(event) == ~HasZeroDuration(event)

\* excelService.ts:37-67: the row keeps the subject of its event
TransformEventsToReportRows(events) ==
    LET kept == SelectSeq(SelectSeq(events, NotCancelled), NotZeroDuration)
    IN  [i \in 1..Len(kept) |-> [meetingName |-> kept[i].subject, aiSummary |-> <<>>,
                                  category |-> <<>>]]

\* index.ts:132-146; index counts from 0 in the source and from 1 here
EnhancedRows(events, results, include) ==
    LET baseRows == TransformEventsToReportRows(events)
        notCancelled == SelectSeq(events, NotCancelled)
    IN  [index \in 1..Len(baseRows) |->
            LET analysis == IF index <= Len(notCancelled)
                            THEN results[notCancelled[index].id] ELSE <<>>
            IN  IF include /\ analysis # <<>>
                THEN [baseRows[index] EXCEPT !.aiSummary = <<analysis[1].summary>>,
                                             !.category = <<analysis[1].category>>]
                ELSE baseRows[index]]

\* the handler is not running
ReportIdle ==
    /\ reportMeetings = <<>>
    /\ reportAnalysisResults = [id \in MeetingIds |-> <<>>]
    /\ argIncludeAnalysis = TRUE
    /\ reportData = <<>>
    /\ reportReturned = "running"

\* the handler is entered (index.ts:113-117)
ReportInit ==
    /\ reportMeetings \in ReportMeetingLists
    /\ reportAnalysisResults \in AnalysisMaps
    /\ argIncludeAnalysis \in BOOLEAN
    /\ reportData = <<>>
    /\ reportReturned = "running"

\* index.ts:119-124
ReportNoMeetings ==
    /\ reportReturned = "running"
    /\ Len(reportMeetings) = 0
    /\ reportReturned' = "error"
    /\ UNCHANGED <<reportMeetings, reportAnalysisResults, argIncludeAnalysis, reportData>>

\* index.ts:126-239
ReportWritesRows ==
    /\ reportReturned = "running"
    /\ Len(reportMeetings) # 0
    /\ reportData' = EnhancedRows(reportMeetings, reportAnalysisResults, argIncludeAnalysis)
    /\ reportReturned' = "success"
    /\ UNCHANGED <<reportMeetings, reportAnalysisResults, argIncludeAnalysis>>

(***************************************************************************)
(* Subscribers and emit (BaseAgent.ts:51-71), the tool registry            *)
(* (BaseAgent.ts:41-46, 93-99) and reset (BaseAgent.ts:229-237) of one     *)
(* agent, the analysis agent.                                              *)
(***************************************************************************)
\* the handler functions passed to onEvent
Subscribers == {"ui", "log", "audit"}

\* the fields of the agent after its constructor
EventInit ==
    /\ eventHandlers = <<>>
    /\ toolRegistry = ToolHandlers["analysis"]
    /\ configTools = ConfigTools["analysis"]
    /\ forEachIndex = 0
    /\ forEachLength = 0
    /\ subscribedAtStart = <<>>
    /\ delivered = <<>>
    /\ lastDispatch = <<>>

Emitting == forEachIndex > 0

\* eventHandlers.indexOf(handler), counted from 1; 0 when absent
IndexOf(handlers, handler) ==
    IF \E i \in 1..Len(handlers) : handlers[i] = handler
    THEN CHOOSE i \in 1..Len(handlers) :
            handlers[i] = handler /\ \A j \in 1..(i - 1) : handlers[j] # handler
    ELSE 0

\* handlers.splice(index, 1)
Splice(handlers, index) ==
    SubSeq(handlers, 1, index - 1) \o SubSeq(handlers, index + 1, Len(handlers))

\* the function onEvent returns (BaseAgent.ts:53-56)
Unsubscribed(handlers, handler) ==
    IF IndexOf(handlers, handler) > 0 THEN Splice(handlers, IndexOf(handlers, handler))
    ELSE handlers

\* onEvent(handler) (BaseAgent.ts:51-52)
OnEvent(handler) ==
    /\ ~Emitting
    /\ IndexOf(eventHandlers, handler) = 0
    /\ eventHandlers' = Append(eventHandlers, handler)
    /\ UNCHANGED <<toolRegistry, configTools, forEachIndex, forEachLength,
                   subscribedAtStart, delivered, lastDispatch>>

\* the unsubscribe function is called between emissions
Unsubscribe(handler) ==
    /\ ~Emitting
    /\ IndexOf(eventHandlers, handler) > 0
    /\ eventHandlers' = Unsubscribed(eventHandlers, handler)
    /\ UNCHANGED <<toolRegistry, configTools, forEachIndex, forEachLength,
                   subscribedAtStart, delivered, lastDispatch>>

\* emit is called: forEach reads the length once (BaseAgent.ts:62-70)
EmitStarts ==
    /\ ~Emitting
    /\ forEachIndex' = 1
    /\ forEachLength' = Len(eventHandlers)
    /\ subscribedAtStart' = eventHandlers
    /\ delivered' = <<>>
    /\ UNCHANGED <<eventHandlers, toolRegistry, configTools, lastDispatch>>

\* forEach calls the handler at its index, which returns
HandlerReturns ==
    /\ Emitting
    /\ forEachIndex <= forEachLength
    /\ forEachIndex <= Len(eventHandlers)
    /\ delivered' = Append(delivered, eventHandlers[forEachIndex])
    /\ forEachIndex' = forEachIndex + 1
    /\ UNCHANGED <<eventHandlers, toolRegistry, configTools, forEachLength,
                   subscribedAtStart, lastDispatch>>

\* forEach calls the handler at its index, which calls its own unsubscribe
\* function and returns
HandlerUnsubscribes ==
    /\ Emitting
    /\ forEachIndex <= forEachLength
    /\ forEachIndex <= Len(eventHandlers)
    /\ delivered' = Append(delivered, eventHandlers[forEachIndex])
    /\ eventHandlers' = Unsubscribed(eventHandlers, eventHandlers[forEachIndex])
    /\ forEachIndex' = forEachIndex + 1
    /\ UNCHANGED <<toolRegistry, configTools, forEachLength, subscribedAtStart,
                   lastDispatch>>

\* forEach finds no element at its index: the array got shorter
ForEachSkips ==
    /\ Emitting
    /\ forEachIndex <= forEachLength
    /\ forEachIndex > Len(eventHandlers)
    /\ forEachIndex' = forEachIndex + 1
    /\ UNCHANGED <<eventHandlers, toolRegistry, configTools, forEachLength,
                   subscribedAtStart, delivered, lastDispatch>>

\* forEach is past the length it read: emit returns
EmitReturns ==
    /\ Emitting
    /\ forEachIndex > forEachLength
    /\ forEachIndex' = 0
    /\ UNCHANGED <<eventHandlers, toolRegistry, configTools, forEachLength,
                   subscribedAtStart, delivered, lastDispatch>>

\* executeTool(name) (BaseAgent.ts:93-99)
DispatchTool(name) ==
    /\ ~Emitting
    /\ lastDispatch' = IF name \in DOMAIN toolRegistry
                       THEN <<name, "handler", toolRegistry[name]>>
                       ELSE <<name, "Unknown tool", 0>>
    /\ UNCHANGED <<eventHandlers, toolRegistry, configTools, forEachIndex, forEachLength,
                   subscribedAtStart, delivered>>

\* mutant of ResetLeaves: reset() drops the subscribers
ResetLeavesForgetsSubscribers ==
    /\ eventHandlers' = <<>>
    /\ UNCHANGED <<toolRegistry, configTools, maxIterations>>

\* the fields reset() does not assign (BaseAgent.ts:229-237, part_003:283-287)
ResetLeaves == UNCHANGED <<eventHandlers, toolRegistry, configTools, maxIterations>>

\* reset() of the agent between emissions
ResetAgent ==
    /\ ~Emitting
    /\ Reset
    /\ ResetLeaves
    /\ UNCHANGED <<forEachIndex, forEachLength, subscribedAtStart, delivered, lastDispatch>>

(***************************************************************************)
(* The specifications.                                                     *)
(***************************************************************************)
Init == AgentInit /\ OrchInit /\ AnalyzeIdle /\ ContextInit /\ ReportIdle /\ EventInit

Next ==
    \/ (\E userMessage \in Instructions : Run(userMessage)) /\ UNCHANGED <<orchVars, analyzeVars, contextVars, reportVars, eventVars>>
    \/ (\E errorMessage \in TransportErrors : LLMFails(errorMessage)) /\ UNCHANGED <<orchVars, analyzeVars, contextVars, reportVars, eventVars>>
    \/ (\E content \in AssistantContents : LLMAnswers(content)) /\ UNCHANGED <<orchVars, analyzeVars, contextVars, reportVars, eventVars>>
    \/ (\E toolCalls \in ToolCallBatches(iterations) : LLMRequestsTools(toolCalls))
          /\ UNCHANGED <<orchVars, analyzeVars, contextVars, reportVars, eventVars>>
    \/ ToolArgumentsMalformed /\ UNCHANGED <<orchVars, analyzeVars, contextVars, reportVars, eventVars>>
    \/ ToolUnknown /\ UNCHANGED <<orchVars, analyzeVars, contextVars, reportVars, eventVars>>
    \/ ToolSucceeds /\ UNCHANGED <<orchVars, analyzeVars, contextVars, reportVars, eventVars>>
    \/ ToolThrows /\ UNCHANGED <<orchVars, analyzeVars, contextVars, reportVars, eventVars>>
    \/ Reset /\ UNCHANGED <<orchVars, analyzeVars, contextVars, reportVars, eventVars>>

Spec == Init /\ [][Next]_vars

\* the pending model query completes: fetch resolves or rejects (BaseAgent.ts:119-140)
ModelResponds ==
    /\ \/ \E errorMessage \in TransportErrors : LLMFails(errorMessage)
       \/ \E content \in AssistantContents : LLMAnswers(content)
       \/ \E toolCalls \in ToolCallBatches(iterations) : LLMRequestsTools(toolCalls)
    /\ UNCHANGED <<orchVars, analyzeVars, contextVars, reportVars, eventVars>>

\* the pending tool call completes: its handler resolves or rejects (BaseAgent.ts:174-194)
ToolCallCompletes ==
    /\ ToolArgumentsMalformed \/ ToolUnknown \/ ToolSucceeds \/ ToolThrows
    /\ UNCHANGED <<orchVars, analyzeVars, contextVars, reportVars, eventVars>>

\* Spec when every model query and every tool handler eventually completes
SpecFair == Spec /\ WF_vars(ModelResponds) /\ WF_vars(ToolCallCompletes)

\* the single agent of Spec stays as constructed
InitOrch ==
    /\ OrchInit
    /\ AnalyzeIdle
    /\ ContextInit
    /\ ReportIdle
    /\ EventInit
    /\ maxIterations = 1
    /\ conversationHistory = InitialHistory
    /\ context = {}
    /\ pc = "Idle"
    /\ iterations = 0
    /\ pending = <<>>
    /\ result = NoResult
    /\ queries = 0
    /\ dispatched = 0
    /\ runCount = 0
    /\ lastReset = "none"
    /\ emitted = <<>>

NextOrch ==
    \/ (\E errorMessage \in TransportErrors : AgentLLMFails(errorMessage))
          /\ UNCHANGED <<agentVars, analyzeVars, contextVars, reportVars, eventVars>>
    \/ (\E content \in AssistantContents : AgentLLMAnswers(content)) /\ UNCHANGED <<agentVars, analyzeVars, contextVars, reportVars, eventVars>>
    \/ AgentLLMRequestsTools /\ UNCHANGED <<agentVars, analyzeVars, contextVars, reportVars, eventVars>>
    \/ AgentBatchEnds /\ UNCHANGED <<agentVars, analyzeVars, contextVars, reportVars, eventVars>>
    \/ ToolWithoutEffect /\ UNCHANGED <<agentVars, analyzeVars, contextVars, reportVars, eventVars>>
    \/ (\E range \in DateRanges, fetched \in MeetingLists :
          FetchCalendarEvents(range, fetched)) /\ UNCHANGED <<agentVars, analyzeVars, contextVars, reportVars, eventVars>>
    \/ (\E filtered \in MeetingLists : FilterMeetings(filtered)) /\ UNCHANGED <<agentVars, analyzeVars, contextVars, reportVars, eventVars>>
    \/ (\E meetingId \in MeetingIds, outcome \in AnalyzeOutcomes :
          AnalyzeSingleMeeting(meetingId, outcome)) /\ UNCHANGED <<agentVars, analyzeVars, contextVars, reportVars, eventVars>>
    \/ (\E outcomes \in [MeetingIds -> AnalyzeOutcomes] : AnalyzeAllMeetings(outcomes))
          /\ UNCHANGED <<agentVars, analyzeVars, contextVars, reportVars, eventVars>>
    \/ (\E text \in SummaryTexts : GenerateExecutiveSummary(text)) /\ UNCHANGED <<agentVars, analyzeVars, contextVars, reportVars, eventVars>>
    \/ GenerateExcelReport /\ UNCHANGED <<agentVars, analyzeVars, contextVars, reportVars, eventVars>>
    \/ (\E includeAnalysis, includeExecutiveSummary \in BOOLEAN :
          GenerateReport(includeAnalysis, includeExecutiveSummary)) /\ UNCHANGED <<agentVars, analyzeVars, contextVars, reportVars, eventVars>>
    \/ Stage1Fails /\ UNCHANGED <<agentVars, analyzeVars, contextVars, reportVars, eventVars>>
    \/ Stage1NoMeetings /\ UNCHANGED <<agentVars, analyzeVars, contextVars, reportVars, eventVars>>
    \/ (\E llmConfigured \in BOOLEAN : Stage1ToStage2(llmConfigured)) /\ UNCHANGED <<agentVars, analyzeVars, contextVars, reportVars, eventVars>>
    \/ (\E llmConfigured \in BOOLEAN : Stage1ToStage3(llmConfigured)) /\ UNCHANGED <<agentVars, analyzeVars, contextVars, reportVars, eventVars>>
    \/ Stage2ToSummary /\ UNCHANGED <<agentVars, analyzeVars, contextVars, reportVars, eventVars>>
    \/ Stage2ToStage3 /\ UNCHANGED <<agentVars, analyzeVars, contextVars, reportVars, eventVars>>
    \/ Stage2Fails /\ UNCHANGED <<agentVars, analyzeVars, contextVars, reportVars, eventVars>>
    \/ SummaryReturns /\ UNCHANGED <<agentVars, analyzeVars, contextVars, reportVars, eventVars>>
    \/ Stage3Fails /\ UNCHANGED <<agentVars, analyzeVars, contextVars, reportVars, eventVars>>
    \/ Stage3Succeeds /\ UNCHANGED <<agentVars, analyzeVars, contextVars, reportVars, eventVars>>
    \/ (\E command \in Commands : RunCommand(command)) /\ UNCHANGED <<agentVars, analyzeVars, contextVars, reportVars, eventVars>>
    \/ CommandReturns /\ UNCHANGED <<agentVars, analyzeVars, contextVars, reportVars, eventVars>>
    \/ CallerResumes /\ UNCHANGED <<agentVars, analyzeVars, contextVars, reportVars, eventVars>>
    \/ OrchestratorReset /\ UNCHANGED <<agentVars, analyzeVars, contextVars, reportVars, eventVars>>

SpecOrch == InitOrch /\ [][NextOrch]_vars

\* the agents and the orchestrator stay as constructed
InitAnalyze ==
    /\ OrchInit
    /\ AgentInit
    /\ maxIterations = 1
    /\ AnalyzeInit
    /\ ContextInit
    /\ ReportIdle
    /\ EventInit

NextAnalyze ==
    \/ LoopNoMeetings /\ UNCHANGED <<agentVars, orchVars, contextVars, reportVars, eventVars>>
    \/ LoopSkipsCancelled /\ UNCHANGED <<agentVars, orchVars, contextVars, reportVars, eventVars>>
    \/ (\E reply \in ChatReplies : LoopAnalyzes(reply)) /\ UNCHANGED <<agentVars, orchVars, contextVars, reportVars, eventVars>>
    \/ LoopReturns /\ UNCHANGED <<agentVars, orchVars, contextVars, reportVars, eventVars>>

SpecAnalyze == InitAnalyze /\ [][NextAnalyze]_vars

\* one agent's context objects and the result its caller holds
InitContext ==
    /\ OrchInit
    /\ AgentInit
    /\ maxIterations = 1
    /\ AnalyzeIdle
    /\ ContextInit
    /\ ReportIdle
    /\ EventInit

NextContext ==
    \/ (\E range \in DateRanges, fetched \in MeetingLists : FetchWritesContext(range, fetched))
          /\ UNCHANGED <<agentVars, orchVars, analyzeVars, reportVars, eventVars>>
    \/ AnalyzeWritesContext /\ UNCHANGED <<agentVars, orchVars, analyzeVars, reportVars, eventVars>>
    \/ (\E partial \in SharedContexts : SetContext(partial))
          /\ UNCHANGED <<agentVars, orchVars, analyzeVars, reportVars, eventVars>>
    \/ ResetContext /\ UNCHANGED <<agentVars, orchVars, analyzeVars, reportVars, eventVars>>
    \/ RunReturnsData /\ UNCHANGED <<agentVars, orchVars, analyzeVars, reportVars, eventVars>>

SpecContext == InitContext /\ [][NextContext]_vars

\* one call of the generate_excel_report handler
InitReport ==
    /\ OrchInit
    /\ AgentInit
    /\ maxIterations = 1
    /\ AnalyzeIdle
    /\ ContextInit
    /\ ReportInit
    /\ EventInit

NextReport ==
    \/ ReportNoMeetings /\ UNCHANGED <<agentVars, orchVars, analyzeVars, contextVars, eventVars>>
    \/ ReportWritesRows /\ UNCHANGED <<agentVars, orchVars, analyzeVars, contextVars, eventVars>>

SpecReport == InitReport /\ [][NextReport]_vars

\* the subscribers, the registry and reset() of one agent
InitEvents ==
    /\ OrchInit
    /\ AgentInit
    /\ maxIterations = 1
    /\ AnalyzeIdle
    /\ ContextInit
    /\ ReportIdle
    /\ EventInit

NextEvents ==
    \/ (\E handler \in Subscribers : OnEvent(handler))
          /\ UNCHANGED <<agentVars, orchVars, analyzeVars, contextVars, reportVars>>
    \/ (\E handler \in Subscribers : Unsubscribe(handler))
          /\ UNCHANGED <<agentVars, orchVars, analyzeVars, contextVars, reportVars>>
    \/ EmitStarts /\ UNCHANGED <<agentVars, orchVars, analyzeVars, contextVars, reportVars>>
    \/ HandlerReturns /\ UNCHANGED <<agentVars, orchVars, analyzeVars, contextVars, reportVars>>
    \/ HandlerUnsubscribes
          /\ UNCHANGED <<agentVars, orchVars, analyzeVars, contextVars, reportVars>>
    \/ ForEachSkips /\ UNCHANGED <<agentVars, orchVars, analyzeVars, contextVars, reportVars>>
    \/ EmitReturns /\ UNCHANGED <<agentVars, orchVars, analyzeVars, contextVars, reportVars>>
    \/ (\E name \in DOMAIN toolRegistry \cup {"unregistered_tool"} : DispatchTool(name))
          /\ UNCHANGED <<agentVars, orchVars, analyzeVars, contextVars, reportVars>>
    \/ (\E userMessage \in Instructions : Run(userMessage))
          /\ UNCHANGED <<orchVars, analyzeVars, contextVars, reportVars, eventVars>>
    \/ (\E content \in AssistantContents : LLMAnswers(content))
          /\ UNCHANGED <<orchVars, analyzeVars, contextVars, reportVars, eventVars>>
    \/ ResetAgent /\ UNCHANGED <<orchVars, analyzeVars, contextVars, reportVars>>

SpecEvents == InitEvents /\ [][NextEvents]_vars

(***************************************************************************)
(* Reading the conversation log.                                           *)
(***************************************************************************)
\* index of the user message of the latest run(), 0 when there is none
RunStart ==
    LET users == { i \in 1..Len(conversationHistory) : conversationHistory[i].role = "user" }
    IN  IF users = {} THEN 0 ELSE CHOOSE i \in users : \A j \in users : j <= i

\* the counters and the tail of the log describe one and the same run()
InRun == pc # "Idle" /\ RunStart > 0

AssistantIndexes ==
    { i \in 1..Len(conversationHistory) : conversationHistory[i].role = "assistant" }

\* the model's responses received in the latest run()
ResponsesInRun == { i \in AssistantIndexes : i > RunStart }

ToolResponsesInRun == { i \in ResponsesInRun : conversationHistory[i].tool_calls # <<>> }

LastAssistant ==
    IF AssistantIndexes = {} THEN 0
    ELSE CHOOSE i \in AssistantIndexes : \A j \in AssistantIndexes : j <= i

CallsAt(i) == conversationHistory[i].tool_calls

\* how many calls of the batch of assistant message i have been handled
Handled(i) ==
    IF pc = "DispatchingTools" /\ i = LastAssistant
    THEN Len(CallsAt(i)) - Len(pending)
    ELSE Len(CallsAt(i))

BatchComplete(i) == Handled(i) = Len(CallsAt(i))

\* the batch of assistant message i is complete and nothing was logged after it
BatchJustCompleted(i) ==
    /\ InRun
    /\ i = LastAssistant
    /\ i > RunStart
    /\ CallsAt(i) # <<>>
    /\ BatchComplete(i)
    /\ Len(conversationHistory) = i + Len(CallsAt(i))

ReachesHandler(toolCall) ==
    ~JSONParseThrows(toolCall.arguments) /\ toolCall.name \in RegisteredTools

ThrowingCall(toolCall) == ReachesHandler(toolCall) /\ HandlerThrows(toolCall.arguments)

ReturningCall(toolCall) == ReachesHandler(toolCall) /\ ~HandlerThrows(toolCall.arguments)

MalformedCall(toolCall) == JSONParseThrows(toolCall.arguments)

UnknownCall(toolCall) ==
    ~JSONParseThrows(toolCall.arguments) /\ toolCall.name \notin RegisteredTools

IsToolMessage(m) == m.role = "tool"

EncodesError(m) == m.role = "tool" /\ m.content[1] = "error"

EncodesResult(m) == m.role = "tool" /\ m.content = <<"result">>

\* the handled calls of the latest run() whose handler was to be invoked
HandlerCallsInRun ==
    { <<i, j>> \in ResponsesInRun \X (1..MaxBatch) :
        j <= Handled(i) /\ ReachesHandler(CallsAt(i)[j]) }

\* a model query was issued after the last response of the latest run()
NextQueryIssued == queries = Cardinality(ResponsesInRun) + 1

\* the failure results callLLM's errors produce
TransportFailures == { FailedResult(e) : e \in TransportErrors }

(***************************************************************************)
(* C1.  With maxIterations = N, a run() in which every model query is      *)
(* answered with at least one tool call ends in failure after exactly N    *)
(* model queries, and no run() ever issues more than N model queries.      *)
(***************************************************************************)
C1_ModelAlwaysRequestsTools ==
    /\ InRun
    /\ pc \in {"Done", "Failed"}
    /\ Cardinality(ToolResponsesInRun) = queries

C1_IterationCap ==
    /\ queries <= maxIterations
    /\ C1_ModelAlwaysRequestsTools =>
          /\ pc = "Failed"
          /\ result.success = FALSE
          /\ queries = maxIterations

C1_Witness ==
    /\ C1_ModelAlwaysRequestsTools
    /\ maxIterations = MaxIterations
    /\ queries = MaxIterations
    /\ pc = "Failed"

(***************************************************************************)
(* C2.  When the first response of a run() carries no tool call, the run   *)
(* makes exactly one model query, invokes no tool handler and returns      *)
(* success = true.                                                         *)
(***************************************************************************)
C2_FirstResponseToolFree ==
    /\ InRun
    /\ Len(conversationHistory) > RunStart
    /\ conversationHistory[RunStart + 1].role = "assistant"
    /\ conversationHistory[RunStart + 1].tool_calls = <<>>

C2_ZeroToolRun ==
    C2_FirstResponseToolFree =>
        /\ pc = "Done"
        /\ queries = 1
        /\ dispatched = 0
        /\ result.success = TRUE
        /\ Len(conversationHistory) = RunStart + 1

C2_Witness ==
    /\ C2_FirstResponseToolFree
    /\ pc = "Done"
    /\ queries = 1
    /\ result.success = TRUE
    /\ lastReset = "none"
    /\ runCount = 2

(***************************************************************************)
(* C3.  Every batch of k tool calls is followed in the log by exactly k    *)
(* tool messages, and these carry the ids of the k calls, as multisets,    *)
(* whatever the outcome of each call (of a batch still being handled: the  *)
(* calls handled so far).                                                  *)
(***************************************************************************)
C3_BatchAnswered(i) ==
    LET calls == CallsAt(i)
        d == Handled(i)
        ids == { calls[j].id : j \in 1..Len(calls) }
    IN  /\ i + d <= Len(conversationHistory)
        /\ \A j \in 1..d : IsToolMessage(conversationHistory[i + j])
        /\ i + d < Len(conversationHistory) => ~IsToolMessage(conversationHistory[i + d + 1])
        /\ \A id \in ids \cup { conversationHistory[i + j].tool_call_id : j \in 1..d } :
              Cardinality({ j \in 1..d : conversationHistory[i + j].tool_call_id = id })
                = Cardinality({ j \in 1..d : calls[j].id = id })

C3_ToolMessagesMatchCalls == \A i \in AssistantIndexes : C3_BatchAnswered(i)

C3_Witness ==
    \E i \in AssistantIndexes :
        /\ Len(CallsAt(i)) = MaxBatch
        /\ BatchComplete(i)
        /\ \E j \in 1..MaxBatch : MalformedCall(CallsAt(i)[j])
        /\ \E j \in 1..MaxBatch : UnknownCall(CallsAt(i)[j])
        /\ i + MaxBatch < Len(conversationHistory)

(***************************************************************************)
(* C4.  A batch of k calls in which exactly one handler throws (and the    *)
(* others return) gets k tool messages, exactly one encoding an error and  *)
(* k-1 encoding results; every call of the batch is dispatched, and after  *)
(* the batch the loop goes to its next model query.                        *)
(*                                                                         *)
(* As claimed (C4_AsClaimed) the next model query always follows.  The     *)
(* loop condition decides: the query follows when fewer than maxIterations *)
(* responses were received, otherwise run() returns the iteration-cap      *)
(* failure (C4_OneHandlerThrows).                                          *)
(***************************************************************************)
C4_ExactlyOneThrows(i) ==
    LET calls == CallsAt(i)
    IN  /\ calls # <<>>
        /\ Cardinality({ j \in 1..Len(calls) : ThrowingCall(calls[j]) }) = 1
        /\ \A j \in 1..Len(calls) : ThrowingCall(calls[j]) \/ ReturningCall(calls[j])

C4_Messages(i) ==
    LET k == Len(CallsAt(i))
    IN  /\ i + k <= Len(conversationHistory)
        /\ \A j \in 1..k : IsToolMessage(conversationHistory[i + j])
        /\ Cardinality({ j \in 1..k : EncodesError(conversationHistory[i + j]) }) = 1
        /\ Cardinality({ j \in 1..k : EncodesResult(conversationHistory[i + j]) }) = k - 1
        /\ \A j \in 1..k : EncodesError(conversationHistory[i + j]) <=> ThrowingCall(CallsAt(i)[j])

C4_AllDispatched == InRun => dispatched = Cardinality(HandlerCallsInRun)

C4_AsClaimed ==
    \A i \in AssistantIndexes :
        (C4_ExactlyOneThrows(i) /\ BatchComplete(i)) =>
            /\ C4_Messages(i)
            /\ C4_AllDispatched
            /\ BatchJustCompleted(i) =>
                  /\ NextQueryIssued
                  /\ result # MaxIterationsResult

C4_OneHandlerThrows ==
    \A i \in AssistantIndexes :
        (C4_ExactlyOneThrows(i) /\ BatchComplete(i)) =>
            /\ C4_Messages(i)
            /\ C4_AllDispatched
            /\ BatchJustCompleted(i) =>
                  IF Cardinality(ResponsesInRun) < maxIterations
                  THEN NextQueryIssued /\ result # MaxIterationsResult
                  ELSE pc = "Failed" /\ result = MaxIterationsResult /\ ~NextQueryIssued

C4_Witness ==
    \E i \in AssistantIndexes :
        /\ C4_ExactlyOneThrows(i)
        /\ Len(CallsAt(i)) = MaxBatch
        /\ ThrowingCall(CallsAt(i)[1])
        /\ BatchJustCompleted(i)
        /\ pc = "AwaitingModel"
        /\ dispatched = MaxBatch

(***************************************************************************)
(* C5.  A transport or model error during a model query makes run()        *)
(* return success = false at once: the failing query is the last query of  *)
(* the run and no tool handler is invoked after it.                        *)
(***************************************************************************)
\* a model query of the run ended without a response
C5_QueryFailed ==
    /\ InRun
    /\ pc # "AwaitingModel"
    /\ queries > Cardinality(ResponsesInRun)

C5_TransportErrorAborts ==
    /\ C5_QueryFailed =>
          /\ pc = "Failed"
          /\ result \in TransportFailures
          /\ result.success = FALSE
          /\ NextQueryIssued
          /\ dispatched = Cardinality(HandlerCallsInRun)
          /\ \A i \in ResponsesInRun : C3_BatchAnswered(i) /\ BatchComplete(i)
    /\ (InRun /\ result \in TransportFailures) => C5_QueryFailed

C5_Witness ==
    /\ C5_QueryFailed
    /\ pc = "Failed"
    /\ queries = 2
    /\ dispatched >= 1
    /\ result = FailedResult("Failed to fetch")

(***************************************************************************)
(* C6.  A tool call whose arguments are not valid JSON is never passed to  *)
(* a handler; the parse error becomes a tool message with the call's id,   *)
(* is not raised to the caller of run(), and the loop goes on with the     *)
(* remaining calls of the batch and then the next model query.             *)
(*                                                                         *)
(* As claimed (C6_AsClaimed) the next model query always follows.  When    *)
(* the batch belongs to response number maxIterations, run() returns the   *)
(* iteration-cap failure instead (C6_MalformedArguments).                  *)
(***************************************************************************)
C6_HasMalformed(i) == \E j \in 1..Len(CallsAt(i)) : MalformedCall(CallsAt(i)[j])

C6_Recorded(i) ==
    \A j \in 1..Handled(i) :
        MalformedCall(CallsAt(i)[j]) =>
            /\ i + j <= Len(conversationHistory)
            /\ conversationHistory[i + j] = ToolErrorMessage(CallsAt(i)[j], "SyntaxError")

C6_NotRaised ==
    /\ result.error \in {"none", "Max iterations exceeded"} \cup TransportErrors
    /\ InRun => dispatched = Cardinality(HandlerCallsInRun)

C6_AsClaimed ==
    \A i \in AssistantIndexes :
        C6_HasMalformed(i) =>
            /\ C6_Recorded(i)
            /\ C6_NotRaised
            /\ (i > RunStart /\ InRun /\ ~BatchComplete(i)) => pc = "DispatchingTools"
            /\ BatchJustCompleted(i) =>
                  /\ NextQueryIssued
                  /\ result # MaxIterationsResult

C6_MalformedArguments ==
    \A i \in AssistantIndexes :
        C6_HasMalformed(i) =>
            /\ C6_Recorded(i)
            /\ C6_NotRaised
            /\ (i > RunStart /\ InRun /\ ~BatchComplete(i)) => pc = "DispatchingTools"
            /\ BatchJustCompleted(i) =>
                  IF Cardinality(ResponsesInRun) < maxIterations
                  THEN NextQueryIssued /\ result # MaxIterationsResult
                  ELSE pc = "Failed" /\ result = MaxIterationsResult /\ ~NextQueryIssued

C6_Witness ==
    \E i \in AssistantIndexes :
        /\ Len(CallsAt(i)) = MaxBatch
        /\ MalformedCall(CallsAt(i)[1])
        /\ ReturningCall(CallsAt(i)[MaxBatch])
        /\ BatchJustCompleted(i)
        /\ pc = "AwaitingModel"
        /\ dispatched = MaxBatch - 1

(***************************************************************************)
(* C7.  A tool call naming a tool without a registered handler is handled  *)
(* like a handler error: one error tool message with the call's id is      *)
(* appended at the call's place, and the run is never aborted by it: the   *)
(* only failures of run() are a transport error of a model query and the   *)
(* iteration cap.                                                          *)
(***************************************************************************)
C7_HasUnknown(i) == \E j \in 1..Len(CallsAt(i)) : UnknownCall(CallsAt(i)[j])

C7_UnknownToolIsolated ==
    \A i \in AssistantIndexes :
        C7_HasUnknown(i) =>
            /\ \A j \in 1..Handled(i) :
                  UnknownCall(CallsAt(i)[j]) =>
                      /\ i + j <= Len(conversationHistory)
                      /\ conversationHistory[i + j]
                           = ToolErrorMessage(CallsAt(i)[j], "Unknown tool")
            /\ C3_BatchAnswered(i)
            /\ (i > RunStart /\ InRun /\ ~BatchComplete(i)) => pc = "DispatchingTools"
            /\ (i > RunStart /\ InRun /\ pc = "Failed") =>
                  \/ result = MaxIterationsResult /\ queries = maxIterations /\ ~NextQueryIssued
                  \/ result \in TransportFailures /\ NextQueryIssued

C7_Witness ==
    \E i \in AssistantIndexes :
        /\ Len(CallsAt(i)) = MaxBatch
        /\ UnknownCall(CallsAt(i)[1])
        /\ ReturningCall(CallsAt(i)[MaxBatch])
        /\ BatchJustCompleted(i)
        /\ pc = "AwaitingModel"
        /\ dispatched = MaxBatch - 1

(***************************************************************************)
(* C8.  In every conversation log reachable by run() and reset() calls,    *)
(* each tool message carries the id of a tool call of an assistant message *)
(* that is earlier in the log, and the first message is not a tool         *)
(* message.                                                                *)
(***************************************************************************)
C8_ToolMessagesReferToCalls ==
    /\ conversationHistory # <<>>
    /\ ~IsToolMessage(conversationHistory[1])
    /\ \A j \in 1..Len(conversationHistory) :
          IsToolMessage(conversationHistory[j]) =>
              \E i \in 1..(j - 1) :
                  /\ conversationHistory[i].role = "assistant"
                  /\ \E c \in 1..Len(conversationHistory[i].tool_calls) :
                        conversationHistory[i].tool_calls[c].id
                          = conversationHistory[j].tool_call_id

C8_Witness ==
    /\ lastReset = "used"
    /\ runCount = 2
    /\ Cardinality({ j \in 1..Len(conversationHistory) :
                        IsToolMessage(conversationHistory[j]) }) >= 2
    /\ \E j \in 1..RunStart : IsToolMessage(conversationHistory[j])

(***************************************************************************)
(* C9.  After reset(), whatever ran before it, the first model query of    *)
(* the next run() is presented with the system message followed by the new *)
(* user message and nothing else, as on a newly constructed agent.         *)
(***************************************************************************)
\* the first model query of a run() is in flight: callLLM sends conversationHistory
C9_FirstQueryInFlight == pc = "AwaitingModel" /\ queries = 1

C9_FreshConversation ==
    \E userMessage \in Instructions :
        conversationHistory = Append(InitialHistory, UserMessage(userMessage))

C9_ResetThenRun ==
    (C9_FirstQueryInFlight /\ runCount = 1) => C9_FreshConversation

C9_Witness ==
    /\ C9_FirstQueryInFlight
    /\ runCount = 1
    /\ lastReset = "used"
    /\ context = {}

(***************************************************************************)
(* C10: reset() of the orchestrator leaves no residual state: a            *)
(* generateReport after it behaves as on a freshly constructed             *)
(* orchestrator.  On a fresh orchestrator a generateReport whose           *)
(* acquisition agent fetches no record never succeeds: it returns the      *)
(* no-data result, or the failure result when the acquisition run fails.   *)
(* So whenever generateReport returns and no fetch has returned records    *)
(* since construction or the last reset(), the value returned is one of    *)
(* these two.                                                              *)
(***************************************************************************)
C10_NothingFetched == stage = "reportReturned" /\ ~recordsFetched

C10_ResetLeavesNoResidue ==
    C10_NothingFetched =>
        \/ returned = NoMeetingsReturn
        \/ returned.message = "Failed to generate report" /\ ~returned.success

(***************************************************************************)
(* Reading the record of the call in progress.                             *)
(***************************************************************************)
\* a generateReport call is in progress or has just returned
InReport == stage \in {"stage1", "stage2", "stage2summary", "stage3", "reportReturned"}

\* the run the orchestrator awaits has returned
RunReturned == agentPc \in {"Done", "Failed"}

Emitted(event) == \E i \in 1..Len(callLog.events) : callLog.events[i] = event

RanInCall(a) == \E i \in 1..Len(callLog.runs) : callLog.runs[i] = a

(***************************************************************************)
(* C11: when the acquisition run of generateReport succeeds and the        *)
(* acquisition agent holds zero records, the call returns success = false  *)
(* with the 'No meetings found' message, and the acquisition run is the    *)
(* only agent run of the call: neither the analysis agent nor the report   *)
(* agent is run.                                                           *)
(***************************************************************************)
C11_ZeroRecords ==
    stage = "stage1" /\ RunReturned /\ agentResult.success /\ meetings = <<>>

C11_NoDataStopsPipeline ==
    [][C11_ZeroRecords =>
          /\ stage' = "reportReturned"
          /\ ~returned'.success
          /\ returned'.message = "No meetings found in the specified date range"
          /\ callLog'.runs = <<"calendar">>]_vars

C11_Witness ==
    /\ stage = "reportReturned"
    /\ Emitted(FoundEvent(0))
    /\ ~returned.success /\ returned.error = "none"
    /\ callLog.runs = <<"calendar">>

(***************************************************************************)
(* C12: when the acquisition run of generateReport returns success =       *)
(* false, the call returns at once with success = false and the error the  *)
(* acquisition run reported; no other agent is run.                        *)
(***************************************************************************)
C12_AcquisitionFailed == stage = "stage1" /\ RunReturned /\ ~agentResult.success

C12_AcquisitionFailureIsFatal ==
    [][C12_AcquisitionFailed =>
          /\ stage' = "reportReturned"
          /\ ~returned'.success
          /\ returned'.error = agentResult.error
          /\ callLog'.runs = <<"calendar">>]_vars

C12_Witness ==
    /\ stage = "reportReturned"
    /\ callLog.runs = <<"calendar">>
    /\ ~returned.success
    /\ returned.error = "Max iterations exceeded"

(***************************************************************************)
(* C13: when the analysis run of Stage 2 returns success = false,          *)
(* generateReport emits an error event, starts no executive-summary run    *)
(* and runs the report agent, primed with the SharedContext as it was      *)
(* before the failure; what the call returns is then decided by the report *)
(* run alone.                                                              *)
(***************************************************************************)
C13_AnalysisFailed == stage = "stage2" /\ RunReturned /\ ~agentResult.success

C13_AnalysisFailureIsRecoverable ==
    [][/\ C13_AnalysisFailed =>
            /\ stage' = "stage3"
            /\ agent' = "report" /\ agentPc' = "AwaitingModel"
            /\ callLog'.runs = <<"calendar", "analysis", "report">>
            /\ Len(callLog'.events) > Len(callLog.events)
            /\ callLog'.events[Len(callLog.events) + 1].type = "error"
            /\ sharedContext' = sharedContext
            /\ agentContext'["report"] = Spread(agentContext["report"], sharedContext)
       /\ (stage = "stage3" /\ RunReturned /\ Emitted(AnalysisFailedEvent)) =>
            /\ stage' = "reportReturned"
            /\ returned'.success = agentResult.success]_vars

C13_Witness ==
    /\ stage = "reportReturned"
    /\ Emitted(AnalysisFailedEvent)
    /\ callLog.runs = <<"calendar", "analysis", "report">>
    /\ returned.success

(***************************************************************************)
(* C14: when the report run of Stage 3 returns success = false,            *)
(* generateReport returns success = false with the error the report agent  *)
(* reported; it does not return success = true.                            *)
(***************************************************************************)
C14_ReportFailed == stage = "stage3" /\ RunReturned /\ ~agentResult.success

C14_ReportFailureIsFatal ==
    [][C14_ReportFailed =>
          /\ stage' = "reportReturned"
          /\ ~returned'.success
          /\ returned'.error = agentResult.error]_vars

C14_Witness ==
    /\ stage = "reportReturned"
    /\ RanInCall("report")
    /\ ~returned.success
    /\ returned.error \in TransportErrors

(***************************************************************************)
(* C15: the stages of a generateReport call run strictly in sequence: the  *)
(* runs of the call are the acquisition run, then the analysis run and its *)
(* executive-summary follow-up if any, then the report run, and a run is   *)
(* started only when the run started before it has returned, so no two     *)
(* runs of the call are in progress together.                              *)
(***************************************************************************)
C15_Orders ==
    { <<"calendar">>, <<"calendar", "analysis">>, <<"calendar", "analysis", "analysis">>,
      <<"calendar", "report">>, <<"calendar", "analysis", "report">>,
      <<"calendar", "analysis", "analysis", "report">> }

C15_InOrder ==
    InReport =>
        /\ callLog.runs \in C15_Orders
        /\ stage # "reportReturned" => agent = callLog.runs[Len(callLog.runs)]

C15_StagesInSequence ==
    /\ []C15_InOrder
    /\ [][(InReport /\ stage # "reportReturned" /\ callLog'.runs # callLog.runs)
            => RunReturned]_vars

C15_Witness ==
    /\ stage = "stage3" /\ agentPc = "AwaitingModel"
    /\ callLog.runs = <<"calendar", "analysis", "analysis", "report">>

(***************************************************************************)
(* C16: acquisition yields at least one record, the analysis is requested  *)
(* and enabled, and every analyzeMeeting call of the generateReport call   *)
(* throws.  As claimed: the call returns success = true, a report artifact *)
(* was produced, and analysisResults has size 0.                           *)
(***************************************************************************)
C16_EveryAnalysisThrows ==
    /\ stage = "reportReturned"
    /\ RanInCall("analysis")
    /\ callLog.analyzed = {"throws"}

C16_AsClaimed ==
    C16_EveryAnalysisThrows =>
        /\ returned.success
        /\ callLog.report # <<>>
        /\ AnalysisResultsSize(analysisResults) = 0

(***************************************************************************)
(* C16, amended: the analyzeMeeting calls that throw add no entry to       *)
(* analysisResults, which is empty after the first call on an orchestrator *)
(* in which every one of them threw; the call returns success = true       *)
(* exactly when the report run succeeds, and an artifact is produced only  *)
(* by a generate_excel_report call of that run.                            *)
(***************************************************************************)
C16_ThrowsAddNothing ==
    (InReport /\ callLog'.analyzed \subseteq {"throws"} /\ stage' # "idle")
        => analysisResults' = analysisResults

C16_ReportRunDecides ==
    (stage = "stage3" /\ RunReturned /\ callLog.analyzed = {"throws"})
        => /\ returned'.success = agentResult.success
           /\ callLog'.report = callLog.report

C16_FirstCallLeavesNoResults ==
    (InReport /\ callCount = 1 /\ callLog.analyzed \subseteq {"throws"})
        => AnalysisResultsSize(analysisResults) = 0

C16_ArtifactOnlyFromReportRun ==
    (InReport /\ callLog.report # <<>>) => RanInCall("report")

C16_AnalysisThrowsOnEveryRecord ==
    /\ [][C16_ThrowsAddNothing /\ C16_ReportRunDecides]_vars
    /\ [](C16_FirstCallLeavesNoResults /\ C16_ArtifactOnlyFromReportRun)

C16_Witness ==
    /\ C16_EveryAnalysisThrows
    /\ callCount = 1
    /\ returned.success
    /\ callLog.report # <<>>
    /\ AnalysisResultsSize(analysisResults) = 0

(***************************************************************************)
(* C17: acquisition yields records, the analysis succeeds for all of them  *)
(* and the executive summary is requested.  As claimed: when Stage 3       *)
(* begins, SharedContext holds a non-empty executiveSummary string.        *)
(***************************************************************************)
C17_SummaryRequested ==
    /\ stage = "stage3"
    /\ callLog.runs = <<"calendar", "analysis", "analysis", "report">>

C17_AllAnalysed ==
    /\ callLog.analyzed = {"returns"}
    /\ \A i \in 1..Len(stageMeetings) : analysisResults[stageMeetings[i].id] = "analysis"

C17_AsClaimed ==
    (C17_SummaryRequested /\ C17_AllAnalysed) =>
        /\ sharedContext.executiveSummary # <<>>
        /\ sharedContext.executiveSummary # <<"">>

(***************************************************************************)
(* C17, amended: when Stage 3 begins after the executive-summary run,      *)
(* SharedContext and the report agent's context hold the analysis agent's  *)
(* executiveSummary field: the text the last generate_executive_summary    *)
(* call of the call returned, which may be empty; the empty string on a    *)
(* first call in which the tool returned no text.                          *)
(***************************************************************************)
C17_SummaryBeforeStage3 ==
    C17_SummaryRequested =>
        /\ sharedContext.executiveSummary = <<executiveSummary>>
        /\ agentContext["report"].executiveSummary = <<executiveSummary>>
        /\ callLog.summarized # <<>> => executiveSummary = callLog.summarized[1]
        /\ (callLog.summarized = <<>> /\ callCount = 1) => executiveSummary = ""

C17_Witness ==
    /\ C17_SummaryRequested /\ C17_AllAnalysed
    /\ agentPc = "AwaitingModel"
    /\ callLog.summarized = <<"summary">>
    /\ sharedContext.executiveSummary = <<"summary">>

(***************************************************************************)
(* C18: runCommand runs exactly one agent, chosen by the first matching    *)
(* branch: the acquisition agent if the lower-cased text contains fetch,   *)
(* calendar or meetings; otherwise the analysis agent if it contains       *)
(* analyz, summar, action item or categor; otherwise the report agent if   *)
(* it contains report, excel, export or download; otherwise the            *)
(* acquisition agent.  "please fetch my meetings for March" goes to the    *)
(* acquisition agent and "generate the excel export" to the report agent.  *)
(***************************************************************************)
C18_Contains(command, keywords) ==
    \E keyword \in keywords : Includes(ToLowerCase(command), keyword)

C18_AgentFor(command) ==
    CASE C18_Contains(command, CalendarKeywords) -> "calendar"
      [] /\ ~C18_Contains(command, CalendarKeywords)
         /\ C18_Contains(command, AnalysisKeywords) -> "analysis"
      [] /\ ~C18_Contains(command, CalendarKeywords)
         /\ ~C18_Contains(command, AnalysisKeywords)
         /\ C18_Contains(command, ReportKeywords) -> "report"
      [] OTHER -> "calendar"

C18_AgentTable == [command \in Commands |-> C18_AgentFor(command)]

C18_FirstMatchingBranch ==
    stage = "command" =>
        /\ agent = C18_AgentTable[options.command]
        /\ callLog.runs = <<agent>>
        /\ options.command = FetchMarchCommand => agent = "calendar"
        /\ options.command = ExcelExportCommand => agent = "report"

C18_Witness ==
    /\ stage = "command"
    /\ options.command = SummarizeExportCommand
    /\ agent = "analysis"
    /\ agentPc = "Done"

(***************************************************************************)
(* C19: generateReport always returns a structured result, and the result  *)
(* tells its three outcomes apart: no data found (success = false without  *)
(* an error), a report generated, with the analysis complete, skipped or   *)
(* degraded (success = true), and a fatal failure (success = false with    *)
(* the error message).                                                     *)
(***************************************************************************)
C19_LastEvent == callLog.events[Len(callLog.events)]

C19_NoData == Emitted(FoundEvent(0))

C19_Fatal == C19_LastEvent.type = "error"

C19_Generated == C19_LastEvent = CompleteEvent

C19_Degraded ==
    /\ C19_Generated
    /\ \/ Emitted(AnalysisFailedEvent)
       \/ Emitted(NotConfiguredEvent)
       \/ ~RanInCall("analysis")

\* what the caller reads from the result alone
C19_Class(value) ==
    IF value.success THEN "generated"
    ELSE IF value.error = "none" THEN "no data" ELSE "fatal"

ContextKeys == {"meetings", "startDate", "endDate", "analysisResults", "executiveSummary"}

C20_Holds(ctx, key) == ctx[key] # <<>>

C20_AsClaimed ==
    (stage = "stage3" /\ RanInCall("analysis")) =>
        \A key \in ContextKeys :
            C20_Holds(agentContext["analysis"], key) => C20_Holds(agentContext["report"], key)

(***************************************************************************)
(* C20, amended: SharedContext is a copy of the acquisition agent's        *)
(* context after Stage 1; a successful analysis run adds analysisResults,  *)
(* and the summary run executiveSummary; a failed analysis run adds        *)
(* nothing.  The agent primed next holds every key of SharedContext with   *)
(* SharedContext's value (last writer wins).                               *)
(***************************************************************************)
C20_AnalysisSucceeded ==
    /\ stage \in {"stage2summary", "stage3"}
    /\ RanInCall("analysis")
    /\ ~Emitted(AnalysisFailedEvent)

C20_Folded(from, to) ==
    \A key \in ContextKeys : C20_Holds(from, key) => to[key] = from[key]

C20_ContextPropagation ==
    /\ stage \in {"stage2", "stage2summary"} =>
          C20_Folded(agentContext["calendar"], agentContext["analysis"])
    /\ stage \in {"stage2", "stage2summary", "stage3"} =>
          C20_Folded(agentContext["calendar"], sharedContext)
    /\ stage = "stage3" => C20_Folded(sharedContext, agentContext["report"])
    /\ C20_AnalysisSucceeded => sharedContext.analysisResults = MapReference
    /\ (stage = "stage3" /\ Emitted(AnalysisFailedEvent)) =>
          C20_Folded(sharedContext, agentContext["calendar"])
    /\ (stage = "stage3" /\ Emitted(SummaryEvent)) =>
          sharedContext.executiveSummary = <<executiveSummary>>

C20_Witness ==
    /\ stage = "stage3"
    /\ callCount = 2
    /\ Emitted(SummaryEvent)
    /\ \A key \in ContextKeys : C20_Holds(agentContext["report"], key)
    /\ agentContext["report"].meetings = agentContext["calendar"].meetings

(***************************************************************************)
(* C21: SharedContext is created fresh at the start of every               *)
(* generateReport call and discarded at its end: while the call has not    *)
(* yet written to it (Stage 1) it holds no key, and after the call has     *)
(* returned it is empty.                                                   *)
(***************************************************************************)
C21_NothingWrittenYet == stage = "stage1"

C21_CallReturned == stage = "reportReturned"

C21_FreshPerCall ==
    /\ C21_NothingWrittenYet => sharedContext = EmptyContext
    /\ C21_CallReturned => sharedContext = EmptyContext

(***************************************************************************)
(* C22: Stage 2 is entered only when the caller enabled the analysis and   *)
(* isLLMConfigured() returned true.  When includeAnalysis is false or the  *)
(* flag is false, the call never runs the analysis agent, and the report   *)
(* run follows the acquisition run directly.                               *)
(***************************************************************************)
C22_InStage2 == stage \in {"stage2", "stage2summary"}

C22_AnalysisEnabled == options.includeAnalysis /\ callLog.configured = <<TRUE>>

C22_PastStage1 == stage \in {"stage2", "stage2summary", "stage3"}

C22_Stage2OnlyWhenEnabled ==
    /\ C22_InStage2 => C22_AnalysisEnabled
    /\ (C22_PastStage1 /\ RanInCall("analysis")) => C22_AnalysisEnabled
    /\ (C22_PastStage1 /\ ~C22_AnalysisEnabled) =>
          /\ stage = "stage3"
          /\ callLog.runs = <<"calendar", "report">>
          /\ ~Emitted(AnalyzingEvent)

C22_Stage2Gate ==
    /\ []C22_Stage2OnlyWhenEnabled
    /\ [][(stage = "stage1" /\ stage' # "stage1" /\ ~C22_AnalysisEnabled')
            => stage' \in {"stage3", "reportReturned"}]_vars

C22_Witness ==
    /\ stage = "stage3"
    /\ options.includeAnalysis
    /\ callLog.configured = <<FALSE>>
    /\ callLog.runs = <<"calendar", "report">>
    /\ callCount = 2
    /\ AnalysisResultsSize(analysisResults) # 0

(***************************************************************************)
(* C23: a run() that exhausts maxIterations without receiving a tool-free  *)
(* response returns a failure result.  As claimed (C23_AsClaimed) its      *)
(* message is "maximum iterations exceeded".                               *)
(***************************************************************************)
C23_Exhausted ==
    /\ InRun
    /\ pc \in {"Done", "Failed"}
    /\ Cardinality(ToolResponsesInRun) = maxIterations

C23_AsClaimed ==
    C23_Exhausted =>
        /\ result.success = FALSE
        /\ result.message = "maximum iterations exceeded"

(***************************************************************************)
(* C23, amended: the failure result has message "Agent reached maximum     *)
(* iterations" and error "Max iterations exceeded", and carries no data.   *)
(***************************************************************************)
C23_IterationCapResult ==
    C23_Exhausted =>
        /\ pc = "Failed"
        /\ result.success = FALSE
        /\ result.message = "Agent reached maximum iterations"
        /\ result.error = "Max iterations exceeded"
        /\ result.data = <<>>

C23_Witness ==
    /\ C23_Exhausted
    /\ maxIterations = MaxIterations
    /\ runCount = 2
    /\ result.success = FALSE

(***************************************************************************)
(* C24: when the model request of one record fails, or its reply cannot be *)
(* used, the record gets the default analysis: category 'other', no action *)
(* items, no key topics, and as summary the first 100 characters of its    *)
(* description ('No description available' when it has none); the records  *)
(* after it are still analysed; and the category of every analysis         *)
(* analyzeMeeting returns is one of the ten categories.                    *)
(***************************************************************************)
C24_Passed == 1..(loopIndex - 1)

C24_Analysable(i) == ~loopMeetings[i].isCancelled /\ loopMeetings[i].attendees

C24_CollaboratorFailed(i) == loopReplies[i].kind \in {"throws", "malformed", "null", "primitive"}

C24_Truncated(description) ==
    [i \in 1..(IF Len(description) < 100 THEN Len(description) ELSE 100) |-> description[i]]

C24_DefaultFor(record) ==
    [summary |-> IF record.bodyPreview \in {<<>>, <<<<>>>>}
                 THEN <<"No description available">>
                 ELSE C24_Truncated(record.bodyPreview[1]),
     category |-> "other",
     actionItems |-> <<>>,
     keyTopics |-> <<>>]

C25_Terminal == pc \in {"Done", "Failed"}

C25_Outcome ==
    /\ pc \in {"Idle", "AwaitingModel", "DispatchingTools", "Done", "Failed"}
    /\ Running => result = NoResult
    /\ pc = "Done" => result.success = TRUE
    /\ pc = "Failed" => (result.success = FALSE /\ result # NoResult)

C25_SameInvocation == runCount' = runCount

C25_Transition ==
    /\ (pc = "Idle" /\ pc' # pc) => (pc' = "AwaitingModel" /\ runCount' = runCount + 1)
    /\ (pc = "AwaitingModel" /\ pc' # pc) => pc' \in {"DispatchingTools", "Done", "Failed"}
    /\ (pc = "DispatchingTools" /\ pc' # pc) => pc' \in {"AwaitingModel", "Failed"}
    /\ Running => C25_SameInvocation
    /\ (C25_Terminal /\ C25_SameInvocation) =>
          /\ pc' = pc
          /\ queries' = queries
          /\ dispatched' = dispatched
          /\ result' = result
    /\ (C25_Terminal /\ ~C25_SameInvocation) =>
          \/ pc' = "AwaitingModel" /\ runCount' = runCount + 1
          \/ pc' = "Idle" /\ runCount' = 0

C25_RunTerminates ==
    /\ []C25_Outcome
    /\ [][C25_Transition]_vars
    /\ Running ~> C25_Terminal

C25_Witness ==
    /\ pc = "Failed"
    /\ result = MaxIterationsResult
    /\ maxIterations = MaxIterations
    /\ dispatched > 0
    /\ runCount = 2

(***************************************************************************)
(* C26: when a run of the calendar, the analysis or the report agent       *)
(* starts, every tool name of the agent's tool specs has exactly one       *)
(* registered handler and no handler is registered under another name, so  *)
(* executeTool finds a handler for every name advertised to the model.     *)
(***************************************************************************)
C26_RunStarts(a) == agent = a /\ agentPc = "AwaitingModel" /\ agentIterations = 1

C26_Declared(a) == { ConfigTools[a][i] : i \in 1..Len(ConfigTools[a]) }

C26_RegisteredBy(a, name) ==
    { i \in 1..Len(RegisterToolsCalls[a]) : RegisterToolsCalls[a][i] = name }

C26_Registry(a) ==
    /\ Cardinality(C26_Declared(a)) = Len(ConfigTools[a])
    /\ DOMAIN ToolHandlers[a] = C26_Declared(a)
    /\ \A name \in C26_Declared(a) :
          /\ Cardinality(C26_RegisteredBy(a, name)) = 1
          /\ ExecuteTool(a, name)[1] = "handler"
          /\ ExecuteTool(a, name)[2] \in C26_RegisteredBy(a, name)

C26_HandlerForEveryTool == \A a \in Agents : C26_RunStarts(a) => C26_Registry(a)

C26_Witness ==
    /\ C26_RunStarts("analysis")
    /\ stage = "stage2summary"
    /\ callCount = 2
    /\ ExecuteTool("analysis", "generate_executive_summary") = <<"handler", 3>>
    /\ ExecuteTool("analysis", "make_coffee") = <<"Unknown tool", 0>>

(***************************************************************************)
(* C27: within one run(), a model query other than the first is issued     *)
(* only when every tool call of the batch before it has resolved and its   *)
(* tool message is in the log; at every model query and at every return of *)
(* run() every tool call of every assistant message has its tool message;  *)
(* and a handler is invoked only for a call of the latest batch, when all  *)
(* earlier batches are complete.                                           *)
(***************************************************************************)
C27_HasToolMessage(i, j) ==
    \E m \in (i + 1)..(i + Len(CallsAt(i))) :
        /\ m <= Len(conversationHistory)
        /\ conversationHistory[m].role = "tool"
        /\ conversationHistory[m].tool_call_id = CallsAt(i)[j].id

C27_Answered(i) == \A j \in 1..Len(CallsAt(i)) : C27_HasToolMessage(i, j)

C27_NoOpenCall == pending = <<>> /\ \A i \in AssistantIndexes : C27_Answered(i)

C27_AtQueryOrReturn == pc \in {"AwaitingModel", "Done", "Failed"}

C27_Quiescent == C27_AtQueryOrReturn => C27_NoOpenCall

C27_QueryIssued == queries' = queries + 1

C27_HandlerInvoked == dispatched' = dispatched + 1

C27_Step ==
    /\ (C27_QueryIssued /\ queries >= 1) =>
          /\ pc = "DispatchingTools"
          /\ Len(pending) = 1
          /\ C27_NoOpenCall'
          /\ Len(conversationHistory') = Len(conversationHistory) + 1
          /\ conversationHistory'[Len(conversationHistory')].role = "tool"
    /\ C27_HandlerInvoked =>
          /\ pc = "DispatchingTools"
          /\ LastAssistant > RunStart
          /\ \E j \in 1..Len(CallsAt(LastAssistant)) :
                /\ CallsAt(LastAssistant)[j] = Head(pending)
                /\ j = Handled(LastAssistant) + 1
          /\ \A i \in AssistantIndexes : i < LastAssistant => C27_Answered(i)
          /\ Len(pending') = Len(pending) - 1 \/ pending' = <<>>

C27_BatchAwaitedBeforeQuery == []C27_Quiescent /\ [][C27_Step]_vars

C27_Witness ==
    /\ pc = "AwaitingModel"
    /\ queries = 2
    /\ runCount = 2
    /\ Len(CallsAt(LastAssistant)) = MaxBatch
    /\ LastAssistant + MaxBatch = Len(conversationHistory)
    /\ EncodesError(conversationHistory[LastAssistant + 1])
    /\ C27_NoOpenCall

(***************************************************************************)
(* C28: the tool calls of a batch are handled one at a time in the order   *)
(* of the model's response: a call is taken up only when the tool messages *)
(* of all calls before it are in the log, each call handled appends one    *)
(* tool message with its id, and the tool messages of a batch stand in the *)
(* log in the order of the calls.                                          *)
(***************************************************************************)
C28_InCallOrder(i) ==
    \A j \in 1..Handled(i) :
        /\ i + j <= Len(conversationHistory)
        /\ conversationHistory[i + j].role = "tool"
        /\ conversationHistory[i + j].tool_call_id = CallsAt(i)[j].id

C28_Ordered ==
    /\ \A i \in AssistantIndexes : C28_InCallOrder(i)
    /\ pc = "DispatchingTools" =>
          /\ pending # <<>>
          /\ Len(conversationHistory) = LastAssistant + Handled(LastAssistant)
          /\ pending = SubSeq(CallsAt(LastAssistant), Handled(LastAssistant) + 1,
                              Len(CallsAt(LastAssistant)))

C28_CallHandled == pc = "DispatchingTools" /\ <<pending, pc>>' # <<pending, pc>>

C28_OneAtATime ==
    C28_CallHandled =>
        /\ pending' = Tail(pending) \/ pending' = <<>>
        /\ conversationHistory' = SubSeq(conversationHistory', 1, Len(conversationHistory))
                                     \o <<conversationHistory'[Len(conversationHistory')]>>
        /\ SubSeq(conversationHistory', 1, Len(conversationHistory)) = conversationHistory
        /\ conversationHistory'[Len(conversationHistory')].role = "tool"
        /\ conversationHistory'[Len(conversationHistory')].tool_call_id = Head(pending).id
        /\ dispatched' \in {dispatched, dispatched + 1}

C28_BatchInOrder == []C28_Ordered /\ [][C28_OneAtATime]_vars

C28_Witness ==
    /\ pc = "DispatchingTools"
    /\ Len(CallsAt(LastAssistant)) = MaxBatch
    /\ Handled(LastAssistant) = MaxBatch - 1
    /\ ThrowingCall(CallsAt(LastAssistant)[1])
    /\ ReturningCall(Head(pending))
    /\ EncodesError(conversationHistory[Len(conversationHistory)])
    /\ conversationHistory[Len(conversationHistory)].tool_call_id = CallsAt(LastAssistant)[1].id
    /\ iterations = 2

(***************************************************************************)
(* C29: the events of one run().  The first event is 'thinking', emitted   *)
(* before the first model query.  Every 'tool_call' event is followed,     *)
(* before the next 'tool_call' event and before the next model query, by   *)
(* exactly one 'tool_result' or 'error' event of that call.  A 'complete'  *)
(* event is emitted exactly when run() returns success = true, once and as *)
(* the last event.  A failing run (transport error or iteration cap) ends  *)
(* with an 'error' event and emits no 'complete' event.                    *)
(***************************************************************************)
C29_Positions(events, type) == { k \in 1..Len(events) : events[k].type = type }

\* the event at k reports how a dispatched call ended (lines 177 and 187)
C29_IsOutcome(events, k) ==
    \/ events[k].type = "tool_result"
    \/ /\ events[k].type = "error"
       /\ Len(events[k].message) = 3
       /\ events[k].message[1] = "Tool failed"

\* the positions after k up to the next tool_call event or the end
C29_Segment(events, k) ==
    { m \in (k + 1)..Len(events) :
        \A n \in (k + 1)..m : events[n].type # "tool_call" }

C29_Paired(events) ==
    /\ \A k \in C29_Positions(events, "tool_call") :
          LET outcomes == { m \in C29_Segment(events, k) : C29_IsOutcome(events, m) }
          IN  /\ Cardinality(outcomes) = 1
              /\ \A m \in outcomes : events[m].message[2] = events[k].message[2]
    /\ \A m \in 1..Len(events) :
          C29_IsOutcome(events, m) =>
              \E k \in C29_Positions(events, "tool_call") : m \in C29_Segment(events, k)

C29_Ordering ==
    pc # "Idle" =>
        /\ emitted # <<>>
        /\ emitted[1] = Event("thinking", <<"Processing request...">>)
        /\ C29_Paired(emitted)
        /\ C29_Positions(emitted, "complete") \subseteq {Len(emitted)}
        /\ (C29_Positions(emitted, "complete") # {}) <=> (result.success = TRUE)
        /\ (result.success = TRUE) <=> (pc = "Done")
        /\ pc = "Failed" =>
              /\ emitted[Len(emitted)].type = "error"
              /\ ~C29_IsOutcome(emitted, Len(emitted))
              /\ \/ /\ result.error = "Max iterations exceeded"
                    /\ emitted[Len(emitted)].message = <<"Max iterations reached">>
                 \/ /\ result.error \in TransportErrors
                    /\ emitted[Len(emitted)].message = <<result.error>>
        /\ Running => C29_Positions(emitted, "error") \subseteq
                          { m \in 1..Len(emitted) : C29_IsOutcome(emitted, m) }

\* a step that issues a model query: the events so far begin with 'thinking'
\* and every tool_call among them has its outcome; a step of a run only
\* appends events
C29_Step ==
    /\ (pc' = "AwaitingModel" /\ pc # "AwaitingModel") =>
          /\ emitted' # <<>>
          /\ emitted'[1].type = "thinking"
          /\ C29_Paired(emitted')
    /\ (Running /\ pc' # "Idle") =>
          /\ Len(emitted') >= Len(emitted)
          /\ SubSeq(emitted', 1, Len(emitted)) = emitted

C29_EventOrdering == []C29_Ordering /\ [][C29_Step]_vars

C29_Witness ==
    /\ pc = "Done"
    /\ runCount = 2
    /\ Len(emitted) = 7
    /\ emitted[2].type = "tool_call"
    /\ emitted[3].type = "thinking"
    /\ emitted[4].type = "tool_result"
    /\ emitted[5].type = "tool_call"
    /\ C29_IsOutcome(emitted, 6) /\ emitted[6].type = "error"
    /\ emitted[7].type = "complete"

(***************************************************************************)
(* C30: between resets the conversation log is append-only.  Every step of *)
(* run() leaves the messages already in the log unchanged, as a prefix of  *)
(* the new log, also from one run() to the next.  The first message is     *)
(* the system message and no other message has the role system.  Only      *)
(* reset() shrinks the log, and it leaves the system message alone in it.  *)
(***************************************************************************)
C30_SystemFirst ==
    /\ conversationHistory # <<>>
    /\ conversationHistory[1] = SystemMessage
    /\ \A i \in 2..Len(conversationHistory) : conversationHistory[i].role # "system"

\* the step is a call of reset(): the only step that leaves no run counted
C30_IsReset == runCount' = 0 /\ pc' = "Idle"

C30_Prefix ==
    /\ Len(conversationHistory') >= Len(conversationHistory)
    /\ SubSeq(conversationHistory', 1, Len(conversationHistory)) = conversationHistory

C30_Step ==
    /\ ~C30_IsReset => C30_Prefix
    /\ C30_IsReset => conversationHistory' = <<SystemMessage>>
    /\ Len(conversationHistory') < Len(conversationHistory) => C30_IsReset

C30_AppendOnly == []C30_SystemFirst /\ [][C30_Step]_vars

\* a reset has emptied a used log, and two runs have appended to it since
C30_Witness ==
    /\ lastReset = "used"
    /\ runCount = 2
    /\ pc = "Done"
    /\ Len(conversationHistory) >= 7
    /\ \E i \in 1..Len(conversationHistory) : conversationHistory[i].role = "tool"
    /\ Cardinality({ i \in 1..Len(conversationHistory) :
                       conversationHistory[i].role = "user" }) = 2

(***************************************************************************)
(* C31: whenever generateReport returns success = true, the handler of     *)
(* generate_excel_report has run to its end during the report run of that  *)
(* call, so a workbook was written.                                        *)
(***************************************************************************)
C31_ReturnedSuccess == stage = "reportReturned" /\ returned.success

C31_WorkbookWritten == callLog.report # <<>>

C31_SuccessMeansArtifact == C31_ReturnedSuccess => C31_WorkbookWritten

(***************************************************************************)
(* C32: when generateReport returns success = true after the handler of    *)
(* generate_excel_report wrote a workbook, the filename of the result is   *)
(* the filename of that workbook, the one the handler returned.            *)
(***************************************************************************)
C32_ReturnedWithArtifact ==
    /\ stage = "reportReturned"
    /\ returned.success
    /\ callLog.report # <<>>

C32_FilenameOfArtifact == C32_ReturnedWithArtifact => returned.filename = callLog.report

(***************************************************************************)
(* C33: the data of a success result is a snapshot.  Once run() has        *)
(* returned it, nothing done later on the same agent (a tool handler       *)
(* writing context keys in a further run, setContext, reset) changes the   *)
(* content of that data.                                                   *)
(***************************************************************************)
C33_Held == heldResult # <<>>

C33_DataIsSnapshot == C33_Held => objects[heldResult[1].data] = heldResult[1].read

(***************************************************************************)
(* C34: what SharedContext contains, the collections it refers to          *)
(* included, changes only by steps the orchestrator takes between agent    *)
(* runs: no tool handler running inside an agent run changes it.           *)
(***************************************************************************)
\* SharedContext with the Map it refers to read through the reference
C34_Contents ==
    [keys |-> sharedContext,
     map |-> IF sharedContext.analysisResults = MapReference
             THEN analysisResults ELSE NoAnalysisResults]

\* the step is a tool handler of the agent whose run is in progress
C34_HandlerStep ==
    /\ agent # "none"
    /\ agentPc \in {"DispatchingTools", "BatchOpen"}
    /\ agentPc' = "BatchOpen"

C34_HandlersLeaveSharedContext == [][C34_HandlerStep => C34_Contents' = C34_Contents]_vars

(***************************************************************************)
(* C35: at the moment Stage 3 of a generateReport call begins, also of a   *)
(* second or later call on the same orchestrator without a reset in        *)
(* between, every key of SharedContext.analysisResults is the id of a      *)
(* record of SharedContext.meetings that is not cancelled: no analysis of  *)
(* a record of an earlier request is carried into a later report.          *)
(***************************************************************************)
C35_Stage3Begins == stage = "stage3" /\ agentPc = "AwaitingModel" /\ agentIterations = 1

C35_Keys ==
    IF sharedContext.analysisResults = MapReference
    THEN { id \in MeetingIds : analysisResults[id] # "none" }
    ELSE {}

C35_Records ==
    LET list == ContextMeetings(sharedContext)
    IN  { list[i].id : i \in { j \in 1..Len(list) : ~list[j].isCancelled } }

C35_ResultsOfThisCall == C35_Stage3Begins => C35_Keys \subseteq C35_Records

(***************************************************************************)
(* C36: in generate_excel_report the AI columns of each row are taken from *)
(* the analysis stored under the id of the meeting that produced the row,  *)
(* for every list of meetings, those with cancelled meetings or meetings   *)
(* of zero duration included.                                              *)
(***************************************************************************)
\* the meetings that produce a row, in the order of the rows
C36_RowMeetings == SelectSeq(SelectSeq(reportMeetings, NotCancelled), NotZeroDuration)

C36_OwnAnalysis(i) == reportAnalysisResults[C36_RowMeetings[i].id]

C36_RowsCarryOwnAnalysis ==
    reportReturned = "success" =>
        /\ Len(reportData) = Len(C36_RowMeetings)
        /\ \A i \in 1..Len(reportData) :
              /\ reportData[i].meetingName = C36_RowMeetings[i].subject
              /\ reportData[i].aiSummary =
                    IF argIncludeAnalysis /\ C36_OwnAnalysis(i) # <<>>
                    THEN <<C36_OwnAnalysis(i)[1].summary>> ELSE <<>>
              /\ reportData[i].category =
                    IF argIncludeAnalysis /\ C36_OwnAnalysis(i) # <<>>
                    THEN <<C36_OwnAnalysis(i)[1].category>> ELSE <<>>

(***************************************************************************)
(* C37: an event the agent emits is delivered exactly once to each handler *)
(* subscribed when the emission starts, in subscription order, also when a *)
(* handler calls its own unsubscribe function during the delivery.         *)
(***************************************************************************)
C37_EmissionOver == forEachIndex > forEachLength

C37_DeliveredToAll == C37_EmissionOver => delivered = subscribedAtStart

(***************************************************************************)
(* C38: whenever runCommand routes the command to the calendar agent, by   *)
(* one of its keywords or by the default for commands without keyword,     *)
(* SharedContext after the call is a copy of the context of the calendar   *)
(* agent, so the records the command fetched reach a following analysis or *)
(* report command.                                                         *)
(***************************************************************************)
C38_RoutedToCalendar == stage = "command" /\ options.route \in {"calendar", "default"}

C38_CommandReturns == C38_RoutedToCalendar /\ stage' = "commandReturned"

C38_SharedContextFollows ==
    [][C38_CommandReturns => sharedContext' = agentContext'["calendar"]]_vars

(***************************************************************************)
(* C39: reset() changes only the conversation log and the local context    *)
(* (and, for the analysis agent and the orchestrator, the analysis results, *)
(* the summary and SharedContext).  The tool registry, the declared tool   *)
(* specs, the configuration and the subscribed event handlers are left as  *)
(* they are: after a reset every declared tool is still dispatched to its  *)
(* handler and every subscriber still receives the events.                 *)
(***************************************************************************)
\* the step is a call of reset() that changes a field of the agent
C39_IsReset == agentVars' # agentVars /\ runCount' = 0 /\ pc' = "Idle"

C39_Frame ==
    C39_IsReset =>
        /\ conversationHistory' = <<SystemMessage>>
        /\ context' = {}
        /\ toolRegistry' = toolRegistry
        /\ configTools' = configTools
        /\ maxIterations' = maxIterations
        /\ eventHandlers' = eventHandlers

C39_Declared == { configTools[i] : i \in 1..Len(configTools) }

C39_Dispatchable ==
    /\ C39_Declared \subseteq DOMAIN toolRegistry
    /\ (lastDispatch # <<>> /\ lastDispatch[1] \in C39_Declared) => lastDispatch[2] = "handler"

\* an emission during which no handler unsubscribed has reached every subscriber
C39_Received ==
    (forEachIndex > forEachLength /\ eventHandlers = subscribedAtStart) =>
        delivered = eventHandlers

C39_ResetKeepsWiring == [][C39_Frame]_vars /\ []C39_Dispatchable /\ []C39_Received

C39_Witness ==
    /\ lastReset = "used"
    /\ runCount = 0
    /\ conversationHistory = <<SystemMessage>>
    /\ Len(eventHandlers) = 3
    /\ forEachIndex > forEachLength
    /\ delivered = eventHandlers
    /\ lastDispatch # <<>>
    /\ lastDispatch[1] = "generate_executive_summary"
    /\ lastDispatch[2] = "handler"

====
